---- MODULE Spec2Model ----
(***************************************************************************)
(* photographer.js (led-cartography): the acquisition-and-reduction        *)
(* pipeline.  One Fadecandy device with one strip inside opts.striplimit;  *)
(* the lights of the strip are visited in stripPosition order, each is     *)
(* photographed against a dark frame, and its photo is reduced by a chain  *)
(* of worker tasks that runs beside the serial capture path.               *)
(*                                                                         *)
(* Conventions.  A JSON field that is absent is Undef (numbers), FALSE     *)
(* (file references: the file name is a function of the node's name, so    *)
(* the field only records whether it is set) or "none" (lightmap).  An     *)
(* asynchronous call is one action for its issue (inside the handler that  *)
(* makes it) and one action for its completion, which runs the callback    *)
(* up to the next asynchronous call.                                       *)
(***************************************************************************)
EXTENDS Integers, Sequences, FiniteSets, TLC

VARIABLES
    opts,           \* command line options that vary between configurations
    ledsPerStrip,   \* fadecandy.LEDS_PER_STRIP, the capacity of a strip
    json,           \* the in-memory document (photos.json)
    files,          \* artifact files whose write has completed
    disk,           \* photos.json on disk
    lastSavedJson,  \* the text jsonSaveFn remembers as last saved
    taskMemo,       \* in-flight task ledger: dark frame index -> waiting lights
    pc,             \* per light: where its acquisition / reduction chain stands
    ms,             \* async.mapSeries over the visiting order, and the run's end
    now,            \* the clock (Date.now), in seconds
    run,            \* which run of the program this is (restarts)
    hist            \* history of the current run, read by the properties only

vars == <<opts, ledsPerStrip, json, files, disk, lastSavedJson, taskMemo,
          pc, ms, now, run, hist>>

(***************************************************************************)
(* Bounds of the model.                                                    *)
(***************************************************************************)
MainStripLeds == 2      \* lights on the strip in the pipeline model (one run)
RestartStripLeds == 1   \* lights on the strip in the model of restarts
ScanStripLeds == 6      \* largest strip in the strip-length model
MaxTime == 1            \* the clock reaches MaxTime dark intervals
MaxRuns == 2            \* runs of the program over one data directory
FaultStripLeds == 2     \* lights on the strip in the model of failures
MaxFaults == 1          \* failures of devices, writes and workers in one run
MaxWrites == 2          \* checkpoint writes in flight in the model of the store

(***************************************************************************)
(* Options (nomnom defaults) and measured values.                          *)
(***************************************************************************)
noisethreshold == 10
darkinterval == 60                      \* seconds
MaxGaps == {0, 1}                       \* values of --maxgap in the pipeline models
Times == {k * darkinterval : k \in 0 .. MaxTime}
Undef == 0 - 1
NoGap == 0 - 1                          \* gap = null
PeakVals == {3, 10, 50}                 \* peakDiff values of the strip-length model
WorkerPeaks == {3, 50}                  \* calculatePeakDiff results

Positions == 0 .. (ledsPerStrip - 1)
\* every position a strip of the pipeline models can have
Slots == 0 .. ((IF MainStripLeds > RestartStripLeds
                THEN (IF MainStripLeds > FaultStripLeds THEN MainStripLeds
                      ELSE FaultStripLeds)
                ELSE (IF RestartStripLeds > FaultStripLeds THEN RestartStripLeds
                      ELSE FaultStripLeds)) - 1)

EmptyLed == [exists |-> FALSE, darkFrame |-> Undef, timestamp |-> Undef,
             rawFile |-> FALSE, thumbFile |-> FALSE, peakDiff |-> Undef,
             lightmap |-> "none"]
EmptyFrame == [timestamp |-> Undef, rawFile |-> FALSE, thumbFile |-> FALSE,
               pgmFile |-> FALSE]

\* json after load of a missing or empty photos.json (defaults filled in)
EmptyDoc(n) == [dev |-> FALSE, random |-> FALSE, length |-> Undef,
                leds |-> [i \in 0 .. (n - 1) |-> EmptyLed],
                darkFrames |-> << >>]

(***************************************************************************)
(* Strip-length inference: updateStripLength.                              *)
(***************************************************************************)
\* jLed.peakDiff >= opts.noisethreshold: the LED is visible
VisibleMissesThreshold(peakDiff) == peakDiff > noisethreshold
Visible(peakDiff) == peakDiff >= noisethreshold

\* i - gap >= opts.maxgap: assume the strip has ended
StripEndedAtMaxGap(i, gap, maxgap) == i - gap + 1 >= maxgap
StripEnded(i, gap, maxgap) == i - gap >= maxgap

\* !jLed || jLed.peakDiff == undefined: not enough information yet
UnmeasuredIgnoresRecord(jLed) == FALSE
Unmeasured(jLed) == ~jLed.exists \/ jLed.peakDiff = Undef

\* The for loop from position i with the running gap; the value is the
\* length it assigns, or Undef when it returns without concluding.
RECURSIVE ScanFromKeepsGap(_, _, _, _, _)
ScanFromKeepsGap(leds, n, maxgap, i, gap) ==
    IF i >= n THEN n
    ELSE IF Unmeasured(leds[i]) THEN Undef
    ELSE IF Visible(leds[i].peakDiff) THEN ScanFromKeepsGap(leds, n, maxgap, i + 1, gap)
    ELSE LET g == IF gap = NoGap THEN i ELSE gap
         IN  IF StripEnded(i, g, maxgap) THEN g
             ELSE ScanFromKeepsGap(leds, n, maxgap, i + 1, g)
RECURSIVE ScanFrom(_, _, _, _, _)
ScanFrom(leds, n, maxgap, i, gap) ==
    IF i >= n THEN n
    ELSE IF Unmeasured(leds[i]) THEN Undef
    ELSE IF Visible(leds[i].peakDiff) THEN ScanFrom(leds, n, maxgap, i + 1, NoGap)
    ELSE LET g == IF gap = NoGap THEN i ELSE gap
         IN  IF StripEnded(i, g, maxgap) THEN g
             ELSE ScanFrom(leds, n, maxgap, i + 1, g)

\* jStrip.length != undefined: already calculated
LengthKnown(j) == j.length # Undef

\* updateStripLength(stripIndex, jDev, callback): the document afterwards
updateStripLength(j) ==
    IF LengthKnown(j) THEN j
    ELSE LET r == ScanFrom(j.leds, ledsPerStrip, opts.maxgap, 0, NoGap)
         IN  IF r = Undef THEN j ELSE [j EXCEPT !.length = r]

(***************************************************************************)
(* Files, the document as text, and the small tests the handlers make.     *)
(***************************************************************************)
LedName(p) == <<"led", p>>
DarkName(index) == <<"dark", index>>            \* darkFrameName(index)
RawFileOf(name) == <<"raw", name>>              \* 'raw-' + name + '.CR2'
ThumbFileOf(name) == <<"thumb", name>>          \* 'thumb-' + name + '.png'
PgmFileOf(name) == <<"pgm", name>>              \* 'pgm-' + name + '.pgm'
LightFileOf(name) == <<"light", name>>          \* 'light-' + name + '.png'

\* json.darkFrames[index], the array being 0-based
Frame(j, index) == j.darkFrames[index + 1]

\* '{}', what lastSavedJson is when photos.json does not exist
EmptyText == [keys |-> FALSE, doc |-> EmptyDoc(ledsPerStrip)]
\* JSON.stringify(json, null, '\t'): the text names devices and darkFrames
Stringify(j) == [keys |-> TRUE, doc |-> j]
\* JSON.parse, then json.devices = json.devices || {} and the same for darkFrames
Parse(text) == text.doc

\* jNode.rawFile && fs.existsSync(path.join(io.dataPath, jNode.rawFile))
RawPresentLooksForThumb(jNode, name, f) == jNode.rawFile /\ ThumbFileOf(name) \in f
RawPresent(jNode, name, f) == jNode.rawFile /\ RawFileOf(name) \in f

\* jNode.thumbFile && fs.existsSync(path.join(io.dataPath, jNode.thumbFile))
ThumbPresentTrustsRecord(jNode, name, f) == jNode.thumbFile
ThumbPresent(jNode, name, f) == jNode.thumbFile /\ ThumbFileOf(name) \in f

\* jNode.pgmFile && fs.existsSync(path.join(io.dataPath, jNode.pgmFile))
PgmPresentAssumed(jNode, name, f) == TRUE
PgmPresent(jNode, name, f) == jNode.pgmFile /\ PgmFileOf(name) \in f

\* jLed.lightmap && jLed.lightmap.file && fs.existsSync(...)
LightmapPresent(jLed, name, f) == jLed.lightmap # "none" /\ LightFileOf(name) \in f

\* jLed.peakDiff != undefined: already calculated
PeakDiffKnown(jLed) == jLed.peakDiff # Undef

\* jStrip.length != undefined && led.stripPosition >= jStrip.length
BeyondLengthOffByOne(j, p) == j.length # Undef /\ p > j.length
BeyondLength(j, p) == j.length # Undef /\ p >= j.length

\* jDev = json.devices[led.device] || {strips: {}, leds: {}} and
\* jStrip = jDev.strips[led.stripIndex] || {}: created once, then kept
StripRecordReplaced(j) == [j EXCEPT !.dev = TRUE, !.length = Undef]
StripRecord(j) == [j EXCEPT !.dev = TRUE]

\* Date.now() - ts < opts.darkinterval * 1000
StillRecentInclusive(ts, t) == t - ts <= darkinterval
StillRecent(ts, t) == t - ts < darkinterval

\* currentDarkFrameIndex(json) at time t
currentDarkFrameIndex(j, t) ==
    LET index == Len(j.darkFrames) - 1
    IN  IF index >= 0 /\ Frame(j, index).timestamp # Undef
           /\ StillRecent(Frame(j, index).timestamp, t)
        THEN index
        ELSE index + 1

\* name in taskMemo
InMemoNever(memo, index) == FALSE
InMemo(memo, index) == index \in DOMAIN memo

MemoPut(memo, index, cbs) ==
    [x \in DOMAIN memo \cup {index} |-> IF x = index THEN cbs ELSE memo[x]]
MemoDelete(memo, index) == [x \in DOMAIN memo \ {index} |-> memo[x]]

At(where) == [at |-> where, dark |-> Undef, doc |-> EmptyText]
Bump(h, field) == [h EXCEPT ![field] = @ + 1]
BumpAt(h, field, k) ==
    [h EXCEPT ![field] = [x \in DOMAIN @ \cup {k} |->
                            IF x = k THEN (IF k \in DOMAIN @ THEN @[k] + 1 ELSE 1)
                            ELSE @[x]]]

(***************************************************************************)
(* A light's reduction chain (handleOneLed's waterfall, then jsonSaveFn).  *)
(* A context c holds what a callback reads and writes: json, last          *)
(* (lastSavedJson), memo (taskMemo), hist, and pcp, where the light stands *)
(* when the callback returns.  f is the set of files on disk.              *)
(***************************************************************************)
\* jsonSaveFn(callback): what it leaves of last, and the text it writes if any
SaveNeededNever(j, last) == FALSE
SaveNeededAlways(j, last) == TRUE
SaveNeeded(j, last) == Stringify(j) # last

\* the chain's last step: jsonSaveFn, then the callback pending.add() gave
FromSave(c, p) ==
    IF SaveNeeded(c.json, c.last)
    THEN [c EXCEPT !.last = Stringify(c.json),
                   !.pcp = [At("saveW") EXCEPT !.doc = Stringify(c.json)],
                   !.hist = BumpAt(c.hist, "finalCb", p)]
    ELSE [c EXCEPT !.pcp = At("done"), !.hist = BumpAt(c.hist, "finalCb", p)]

\* generateMoments
FromMoments(c, f, p) ==
    IF c.json.leds[p].lightmap = "none" \/ c.json.leds[p].lightmap = "moments"
    THEN FromSave(c, p)
    ELSE [c EXCEPT !.pcp = At("momentsW"), !.hist = BumpAt(c.hist, "momentsCalls", p)]

\* generateDarkPGM's callback in generateLightmap: calculateLightImage is issued
PgmCallback(h, p) == BumpAt(BumpAt(h, "pgmCb", p), "lightCalls", p)

\* generateDarkPGM(io, json, taskMemo, index, callback), called for light p
generateDarkPGM(c, f, p, index) ==
    IF InMemo(c.memo, index)
    THEN [c EXCEPT !.memo = MemoPut(c.memo, index, Append(c.memo[index], p)),
                   !.pcp = At("pgmWait"),
                   !.hist = Bump(c.hist, "pgmJoins")]
    ELSE IF PgmPresent(Frame(c.json, index), DarkName(index), f)
    THEN \* complete(): the entry just made is deleted, its one callback runs
         [c EXCEPT !.pcp = At("lightW"), !.hist = PgmCallback(c.hist, p)]
    ELSE [c EXCEPT !.memo = MemoPut(c.memo, index, <<p>>),
                   !.pcp = At("pgmW"),
                   !.hist = BumpAt(c.hist, "pgmCalls", index)]

\* generateLightmap
FromLightmapWithoutThreshold(c, f, p) ==
    IF LightmapPresent(c.json.leds[p], LedName(p), f)
    THEN FromMoments(c, f, p)
    ELSE generateDarkPGM(c, f, p, c.json.leds[p].darkFrame)
FromLightmap(c, f, p) ==
    LET jLed == c.json.leds[p]
    IN  IF ~Visible(jLed.peakDiff)
        THEN FromMoments([c EXCEPT !.json.leds[p].lightmap = "none"], f, p)
        ELSE IF LightmapPresent(jLed, LedName(p), f)
        THEN FromMoments(c, f, p)
        ELSE generateDarkPGM(c, f, p, jLed.darkFrame)

\* updateStripLength, then the rest of the waterfall
FromStrip(c, f, p) ==
    FromLightmap([c EXCEPT !.json = updateStripLength(c.json)], f, p)

\* generatePeakDiff
FromPeak(c, f, p) ==
    LET jLed == c.json.leds[p]
        darkIndex == jLed.darkFrame
    IN  IF PeakDiffKnown(jLed)
        THEN FromStrip(c, f, p)
        ELSE IF ThumbPresent(Frame(c.json, darkIndex), DarkName(darkIndex), f)
        THEN [c EXCEPT !.pcp = At("peakW"),
                       !.hist = BumpAt(c.hist, "peakCalls", p)]
        ELSE [c EXCEPT !.pcp = At("darkThumbW"),
                       !.hist = BumpAt(c.hist, "darkThumbCalls", darkIndex)]

\* generateThumbnail for the light: the head of the waterfall
FromThumb(c, f, p) ==
    IF ThumbPresent(c.json.leds[p], LedName(p), f)
    THEN FromPeak(c, f, p)
    ELSE [c EXCEPT !.pcp = At("thumbW"),
                   !.hist = BumpAt(c.hist, "thumbCalls", p)]

Ctx == [json |-> json, last |-> lastSavedJson, memo |-> taskMemo, hist |-> hist,
        ms |-> ms, pcp |-> At("idle")]

\* what a callback of light p's chain leaves behind
Commit(c, p) ==
    /\ json' = c.json
    /\ lastSavedJson' = c.last
    /\ taskMemo' = c.memo
    /\ hist' = c.hist
    /\ pc' = [pc EXCEPT ![p] = c.pcp]

ChainRest == <<opts, ledsPerStrip, disk, ms, now, run>>
SeqRest == <<opts, ledsPerStrip, disk, run>>

\* aWrite.writeFile of the raw photo has completed: finalCallback
RawWriteDone(p) ==
    /\ p \in Positions
    /\ pc[p].at = "rawWrite"
    /\ files' = files \cup {RawFileOf(LedName(p))}
    /\ Commit(FromThumb([Ctx EXCEPT !.json.leds[p].rawFile = TRUE], files', p), p)
    /\ UNCHANGED ChainRest

\* highPriorityWorkers.thumbnailer has written the light's thumbnail
ThumbDone(p) ==
    /\ p \in Positions
    /\ pc[p].at = "thumbW"
    /\ files' = files \cup {ThumbFileOf(LedName(p))}
    /\ Commit(FromPeak([Ctx EXCEPT !.json.leds[p].thumbFile = TRUE], files', p), p)
    /\ UNCHANGED ChainRest

\* the thumbnailer has written the dark frame's thumbnail; calculatePeakDiff is issued
DarkThumbDone(p) ==
    /\ p \in Positions
    /\ pc[p].at = "darkThumbW"
    /\ LET darkIndex == json.leds[p].darkFrame
       IN  /\ files' = files \cup {ThumbFileOf(DarkName(darkIndex))}
           /\ json' = [json EXCEPT !.darkFrames[darkIndex + 1].thumbFile = TRUE]
    /\ pc' = [pc EXCEPT ![p] = At("peakW")]
    /\ hist' = BumpAt(hist, "peakCalls", p)
    /\ UNCHANGED <<lastSavedJson, taskMemo>>
    /\ UNCHANGED ChainRest

\* calculatePeakDiff has returned result
PeakDone(p, result) ==
    /\ p \in Positions
    /\ pc[p].at = "peakW"
    /\ Commit(FromStrip([Ctx EXCEPT !.json.leds[p].peakDiff = result,
                                    !.hist = IF LengthKnown(json)
                                             THEN Bump(hist, "peaksAfterLength")
                                             ELSE hist], files, p), p)
    /\ UNCHANGED files
    /\ UNCHANGED ChainRest

\* extractDarkPGM has written the frame's PGM: pgmFile is recorded, then
\* complete() deletes the memo entry and runs every callback queued on it
PgmDone(p) ==
    /\ p \in Positions
    /\ pc[p].at = "pgmW"
    /\ LET index == json.leds[p].darkFrame
           cb == taskMemo[index]
       IN  /\ files' = files \cup {PgmFileOf(DarkName(index))}
           /\ json' = [json EXCEPT !.darkFrames[index + 1].pgmFile = TRUE]
           /\ taskMemo' = MemoDelete(taskMemo, index)
           /\ pc' = [q \in DOMAIN pc |->
                        IF \E i \in 1 .. Len(cb) : cb[i] = q THEN At("lightW") ELSE pc[q]]
           /\ hist' = [hist EXCEPT
                          !.pgmCb = [q \in DOMAIN @ |->
                                        @[q] + Cardinality({i \in 1 .. Len(cb) : cb[i] = q})],
                          !.lightCalls = [q \in DOMAIN @ |->
                                        @[q] + Cardinality({i \in 1 .. Len(cb) : cb[i] = q})]]
    /\ UNCHANGED lastSavedJson
    /\ UNCHANGED ChainRest

\* calculateLightImage has written the lightmap
LightDone(p) ==
    /\ p \in Positions
    /\ pc[p].at = "lightW"
    /\ files' = files \cup {LightFileOf(LedName(p))}
    /\ Commit(FromMoments([Ctx EXCEPT !.json.leds[p].lightmap = "file"], files', p), p)
    /\ UNCHANGED ChainRest

\* calculateMoments has returned
MomentsDone(p) ==
    /\ p \in Positions
    /\ pc[p].at = "momentsW"
    /\ Commit(FromSave([Ctx EXCEPT !.json.leds[p].lightmap = "moments"], p), p)
    /\ UNCHANGED files
    /\ UNCHANGED ChainRest

\* the chain's checkpoint write has completed (temporary file renamed)
SaveDone(p) ==
    /\ p \in Positions
    /\ pc[p].at = "saveW"
    /\ disk' = [exists |-> TRUE, text |-> pc[p].doc]
    /\ pc' = [pc EXCEPT ![p] = At("done")]
    /\ UNCHANGED <<opts, ledsPerStrip, json, files, lastSavedJson, taskMemo, ms, now, run, hist>>

(***************************************************************************)
(* The serial capture path: async.mapSeries over collectLeds(io, json),    *)
(* handleOneLed, photographLed, photographDarkness, photographCommon.      *)
(***************************************************************************)
\* mapSeries calls the iterator for the next light only when the previous
\* iterator's callback has been invoked
MapSeriesInParallel(m) == m.pc \in {"call", "busy", "save"}
MapSeriesReady(m) == m.pc = "call"

\* the callback mapSeries gave the iterator: the next light, or after the last
\* one the final function, whose waterfall starts with ioClose (io.fc.lightsOff)
\* (without io.fc ioClose calls back at once and jsonSaveFn follows)
Advance(c) ==
    IF c.ms.next < ledsPerStrip
    THEN [c EXCEPT !.ms.pc = "call"]
    ELSE IF ~opts.processonly
    THEN [c EXCEPT !.ms.pc = "close", !.hist = Bump(c.hist, "closeCmds")]
    ELSE IF SaveNeeded(c.json, c.last)
    THEN [c EXCEPT !.last = Stringify(c.json),
                   !.ms.pc = "finalSave", !.ms.doc = Stringify(c.json)]
    ELSE [c EXCEPT !.ms.pc = "wait"]

\* photoCallback of light p: nextPhoto, that is jsonSaveFn(callback)
nextPhotoNotCalled(c, p) == c
nextPhotoWithoutCheckpoint(c, p) == Advance([c EXCEPT !.hist = BumpAt(c.hist, "photoCb", p)])
nextPhoto(c, p) ==
    LET c1 == [c EXCEPT !.hist = BumpAt(c.hist, "photoCb", p)]
    IN  IF SaveNeeded(c1.json, c1.last)
        THEN [c1 EXCEPT !.last = Stringify(c1.json),
                        !.ms.pc = "save", !.ms.doc = Stringify(c1.json)]
        ELSE Advance(c1)

CommitSeq(c, p) ==
    /\ Commit(c, p)
    /\ ms' = c.ms

\* the iterator is called for light p; handleOneLed has made the records
Called(p) == [Ctx EXCEPT !.json = StripRecord(json),
                         !.ms = [ms EXCEPT !.pc = "busy", !.next = p + 1]]

\* handleOneLed: the light lies beyond the detected strip length
VisitSkip ==
    /\ MapSeriesReady(ms) /\ ms.next < ledsPerStrip
    /\ LET p == ms.next
           c == Called(p)
       IN  /\ BeyondLength(c.json, p)
           /\ CommitSeq(FromSave(nextPhoto(c, p), p), p)
    /\ UNCHANGED <<files, now>>
    /\ UNCHANGED SeqRest

\* photographCommon: the raw photo is recorded and on disk, nothing is taken
VisitHaveRaw ==
    /\ MapSeriesReady(ms) /\ ms.next < ledsPerStrip
    /\ LET p == ms.next
           c == [Called(p) EXCEPT !.json.leds[p].exists = TRUE]
       IN  /\ ~BeyondLength(c.json, p)
           /\ RawPresent(c.json.leds[p], LedName(p), files)
           /\ CommitSeq(FromThumb(nextPhoto(c, p), files, p), p)
    /\ UNCHANGED <<files, now>>
    /\ UNCHANGED SeqRest

\* photographLed's prepFn at time t: the dark frame to use, photographDarkness
VisitShoot(t) ==
    /\ ~opts.processonly
    /\ MapSeriesReady(ms) /\ ms.next < ledsPerStrip
    /\ t >= now
    /\ now' = t
    /\ LET p == ms.next
           c == [Called(p) EXCEPT !.json.leds[p].exists = TRUE]
           darkFrame == currentDarkFrameIndex(c.json, t)
           frames == IF darkFrame < Len(c.json.darkFrames) THEN c.json.darkFrames
                     ELSE Append(c.json.darkFrames, EmptyFrame)
           c1 == [c EXCEPT !.json.darkFrames = frames,
                           !.hist = Bump(c.hist, "lightCmds")]
       IN  /\ ~BeyondLength(c.json, p)
           /\ ~RawPresent(c.json.leds[p], LedName(p), files)
           /\ IF RawPresent(frames[darkFrame + 1], DarkName(darkFrame), files)
              THEN \* the frame is there: jLed.darkFrame is set, singleLight is sent
                   CommitSeq([c1 EXCEPT !.json.leds[p].darkFrame = darkFrame,
                                        !.pcp = At("single")], p)
              ELSE \* io.fc.lightsOff is sent
                   CommitSeq([c1 EXCEPT !.pcp = [At("darkOff") EXCEPT !.dark = darkFrame]], p)
    /\ UNCHANGED files
    /\ UNCHANGED SeqRest

ShotRest == <<opts, ledsPerStrip, disk, run, now, lastSavedJson, taskMemo, ms>>

\* lightsOff has been acknowledged: the dark frame is taken
DarkOffDone(p) ==
    /\ p \in Positions
    /\ pc[p].at = "darkOff"
    /\ pc' = [pc EXCEPT ![p].at = "darkShot"]
    /\ hist' = Bump(hist, "darkShots")
    /\ UNCHANGED <<json, files>>
    /\ UNCHANGED ShotRest

\* takePicture has returned the dark frame: timestamp, derived data deleted,
\* photoCallback (which only looks at err), the raw write is started
DarkShotDoneSetsReference(p) ==
    /\ p \in Positions
    /\ pc[p].at = "darkShot"
    /\ json' = [json EXCEPT !.darkFrames[pc[p].dark + 1].timestamp = now,
                            !.darkFrames[pc[p].dark + 1].thumbFile = FALSE,
                            !.leds[p].darkFrame = pc[p].dark]
    /\ pc' = [pc EXCEPT ![p].at = "darkWrite"]
    /\ UNCHANGED <<files, hist>>
    /\ UNCHANGED ShotRest
DarkShotDone(p) ==
    /\ p \in Positions
    /\ pc[p].at = "darkShot"
    /\ json' = [json EXCEPT !.darkFrames[pc[p].dark + 1].timestamp = now,
                            !.darkFrames[pc[p].dark + 1].thumbFile = FALSE]
    /\ pc' = [pc EXCEPT ![p].at = "darkWrite"]
    /\ UNCHANGED <<files, hist>>
    /\ UNCHANGED ShotRest

\* the dark frame's raw write has completed: rawFile is recorded, then
\* photographLed sets jLed.darkFrame and sends singleLight
DarkWriteDone(p) ==
    /\ p \in Positions
    /\ pc[p].at = "darkWrite"
    /\ files' = files \cup {RawFileOf(DarkName(pc[p].dark))}
    /\ json' = [json EXCEPT !.darkFrames[pc[p].dark + 1].rawFile = TRUE,
                            !.leds[p].darkFrame = pc[p].dark]
    /\ pc' = [pc EXCEPT ![p] = At("single")]
    /\ hist' = Bump(hist, "lightCmds")
    /\ UNCHANGED ShotRest

\* singleLight has been acknowledged: the light is photographed
SingleDone(p) ==
    /\ p \in Positions
    /\ pc[p].at = "single"
    /\ pc' = [pc EXCEPT ![p] = At("shot")]
    /\ hist' = BumpAt(hist, "shots", p)
    /\ UNCHANGED <<json, files>>
    /\ UNCHANGED ShotRest

\* takePicture has returned the light's photo: timestamp, thumbFile and lightmap
\* deleted, photoCallback, and the raw write is started
ShotDoneKeepsDerived(p) ==
    /\ p \in Positions
    /\ pc[p].at = "shot"
    /\ CommitSeq([nextPhoto([Ctx EXCEPT !.json.leds[p].timestamp = now], p)
                    EXCEPT !.pcp = At("rawWrite")], p)
    /\ UNCHANGED <<files, now>>
    /\ UNCHANGED SeqRest
ShotDone(p) ==
    /\ p \in Positions
    /\ pc[p].at = "shot"
    /\ CommitSeq([nextPhoto([Ctx EXCEPT !.json.leds[p].timestamp = now,
                                        !.json.leds[p].thumbFile = FALSE,
                                        !.json.leds[p].lightmap = "none"], p)
                    EXCEPT !.pcp = At("rawWrite")], p)
    /\ UNCHANGED <<files, now>>
    /\ UNCHANGED SeqRest

\* nextPhoto's checkpoint write has completed: mapSeries goes on
SeqSaveDone ==
    /\ ms.pc = "save"
    /\ disk' = [exists |-> TRUE, text |-> ms.doc]
    /\ LET c == Advance([Ctx EXCEPT !.ms.doc = EmptyText])
       IN  ms' = c.ms /\ hist' = c.hist /\ lastSavedJson' = c.last
    /\ UNCHANGED <<opts, ledsPerStrip, json, files, taskMemo, pc, now, run>>

\* ioClose: lightsOff has been acknowledged, the socket is closed; jsonSaveFn
CloseDone ==
    /\ ms.pc = "close"
    /\ IF SaveNeeded(json, lastSavedJson)
       THEN /\ lastSavedJson' = Stringify(json)
            /\ ms' = [ms EXCEPT !.pc = "finalSave", !.doc = Stringify(json)]
       ELSE /\ ms' = [ms EXCEPT !.pc = "wait"]
            /\ UNCHANGED lastSavedJson
    /\ UNCHANGED hist
    /\ UNCHANGED <<opts, ledsPerStrip, json, files, disk, taskMemo, pc, now, run>>

\* the final checkpoint write has completed
FinalSaveDone ==
    /\ ms.pc = "finalSave"
    /\ disk' = [exists |-> TRUE, text |-> ms.doc]
    /\ ms' = [ms EXCEPT !.pc = "wait", !.doc = EmptyText]
    /\ UNCHANGED <<opts, ledsPerStrip, json, files, lastSavedJson, taskMemo, pc, now, run, hist>>

\* the join: every callback handed out by pending.add() for a light's
\* waterfall has been called
PendingAtOnce == TRUE
PendingDone == \A p \in Positions : pc[p].at \in {"done", "failed"}

\* pending.then, registered by the final function with its own pending.add():
\* the worker farms are ended and photographer's callback prints "Done."
Finish ==
    /\ ms.pc = "wait"
    /\ PendingDone
    /\ ms' = [ms EXCEPT !.pc = "done"]
    /\ UNCHANGED <<opts, ledsPerStrip, json, files, disk, lastSavedJson, taskMemo, pc, now, run, hist>>

(***************************************************************************)
(* A run: photographer() loads photos.json, collectLeds gives the order.   *)
(***************************************************************************)
ZeroPer(S) == [x \in S |-> 0]

\* the history of a run that starts from document j, files f and record d
HistStart(j, f, d, clean, gone) ==
    [lightCmds |-> 0, closeCmds |-> 0, darkShots |-> 0,
     pgmJoins |-> 0, peaksAfterLength |-> 0,
     shots |-> ZeroPer(Positions), thumbCalls |-> ZeroPer(Positions),
     peakCalls |-> ZeroPer(Positions), pgmCb |-> ZeroPer(Positions),
     lightCalls |-> ZeroPer(Positions), momentsCalls |-> ZeroPer(Positions),
     photoCb |-> ZeroPer(Positions), finalCb |-> ZeroPer(Positions),
     pgmCalls |-> ZeroPer({}), darkThumbCalls |-> ZeroPer({}),
     deviceErrs |-> 0, saveErrs |-> 0, taskErrs |-> 0, reported |-> 0,
     start |-> [json |-> j, files |-> f, disk |-> d],
     clean |-> clean, gone |-> gone]

\* photographer(): lastSavedJson, json with its defaults, and collectLeds'
\* json.random = rng.getState(); nothing is in flight
Load(d, f, clean, gone) ==
    LET text == IF d.exists THEN d.text ELSE EmptyText
        j == [Parse(text) EXCEPT !.random = TRUE]
    IN  /\ lastSavedJson' = text
        /\ json' = j
        /\ taskMemo' = ZeroPer({})
        /\ pc' = [p \in Positions |-> At("idle")]
        /\ ms' = [pc |-> "call", next |-> 0, doc |-> EmptyText]
        /\ hist' = HistStart(j, f, d, clean, gone)

\* a new, empty data directory
EmptyStore == [disk |-> [exists |-> FALSE, text |-> EmptyText], files |-> {}]

\* the data directory an interrupted run leaves when SIGINT arrives after the
\* raw photo of the first light has been written and before the second light
\* is visited (Interrupt below, taken after RawWriteDone(0))
PhotographedStore ==
    LET j == [EmptyDoc(ledsPerStrip) EXCEPT
                 !.dev = TRUE, !.random = TRUE,
                 !.leds[0] = [EmptyLed EXCEPT !.exists = TRUE, !.darkFrame = 0,
                                              !.timestamp = 0, !.rawFile = TRUE],
                 !.darkFrames = <<[EmptyFrame EXCEPT !.timestamp = 0,
                                                     !.rawFile = TRUE]>>]
    IN  [disk |-> [exists |-> TRUE, text |-> Stringify(j)],
         files |-> {RawFileOf(DarkName(0)), RawFileOf(LedName(0))}]

\* the first run of the model: a strip of n lights, one of the data directories
InitWith(n, stores, processonly) ==
    /\ opts \in {[maxgap |-> g, processonly |-> processonly] : g \in MaxGaps}
    /\ ledsPerStrip = n
    /\ \E store \in stores :
          /\ files = store.files
          /\ disk = store.disk
    /\ lastSavedJson = (IF disk.exists THEN disk.text ELSE EmptyText)
    /\ json = [Parse(lastSavedJson) EXCEPT !.random = TRUE]
    /\ taskMemo = ZeroPer({})
    /\ pc = [p \in Positions |-> At("idle")]
    /\ ms = [pc |-> "call", next |-> 0, doc |-> EmptyText]
    /\ now = 0
    /\ run = 1
    /\ hist = HistStart(json, files, disk, FALSE, {})

\* without --processonly
InitOf(n, stores) == InitWith(n, stores, FALSE)

Init == InitOf(MainStripLeds, {EmptyStore, PhotographedStore})

Next ==
    \/ VisitSkip
    \/ VisitHaveRaw
    \/ \E t \in Times : VisitShoot(t)
    \/ \E p \in Slots : DarkOffDone(p)
    \/ \E p \in Slots : DarkShotDone(p)
    \/ \E p \in Slots : DarkWriteDone(p)
    \/ \E p \in Slots : SingleDone(p)
    \/ \E p \in Slots : ShotDone(p)
    \/ \E p \in Slots : RawWriteDone(p)
    \/ \E p \in Slots : ThumbDone(p)
    \/ \E p \in Slots : DarkThumbDone(p)
    \/ \E p \in Slots : \E result \in WorkerPeaks : PeakDone(p, result)
    \/ \E p \in Slots : PgmDone(p)
    \/ \E p \in Slots : LightDone(p)
    \/ \E p \in Slots : MomentsDone(p)
    \/ \E p \in Slots : SaveDone(p)
    \/ SeqSaveDone \/ CloseDone \/ FinalSaveDone \/ Finish

Spec == Init /\ [][Next]_vars

(***************************************************************************)
(* Restarts: the program is run again over the same data directory, after  *)
(* it has completed or after it has been interrupted.                      *)
(***************************************************************************)
\* the run has printed "Done."; the program is run again at time t, after the
\* files in gone have been removed from the data directory
Rerun(t, gone) ==
    /\ ms.pc = "done"
    /\ run < MaxRuns
    /\ t >= now
    /\ run' = run + 1
    /\ now' = t
    /\ files' = files \ gone
    /\ Load(disk, files', gone = {}, gone)
    /\ UNCHANGED <<opts, ledsPerStrip, disk>>

\* SIGINT: jsonSaveFn, and in its callback the process kills itself; writes
\* still in flight are lost with the process.  The program is run again at
\* time t.
Interrupt(t) ==
    /\ ms.pc # "done"
    /\ run < MaxRuns
    /\ t >= now
    /\ run' = run + 1
    /\ now' = t
    /\ disk' = IF SaveNeeded(json, lastSavedJson)
               THEN [exists |-> TRUE, text |-> Stringify(json)]
               ELSE disk
    /\ Load(disk', files, FALSE, {})
    /\ UNCHANGED <<opts, ledsPerStrip, files>>

\* a data directory whose photos.json is the text '{}', made by hand
BareStore == [disk |-> [exists |-> TRUE, text |-> EmptyText], files |-> {}]

RestartInit == InitOf(RestartStripLeds, {EmptyStore, BareStore})

RestartNext ==
    \/ Next
    \/ \E t \in Times : \E gone \in {{}} \cup {{x} : x \in files} : Rerun(t, gone)
    \/ \E t \in Times : Interrupt(t)

SpecRestart == RestartInit /\ [][RestartNext]_vars

(***************************************************************************)
(* Failures: a lighting command or a capture returns an error, a write     *)
(* fails, a worker task returns an error.  Each action is the completion   *)
(* of the asynchronous call with err set, run up to the next asynchronous  *)
(* call or to the end of the process.                                      *)
(***************************************************************************)
\* if (err) return photoCallback(err), in photographCommon
DeviceFailedNever(err) == FALSE
DeviceFailed(err) == err
\* if (err) return callback(err) / finalCallback(err), in the callback of a
\* worker task or of the raw photo's write
TaskFailedNever(err) == FALSE
TaskFailed(err) == err
\* aWrite.writeFile(jsonPath, savedJson, callback): the write's err is the
\* argument of jsonSaveFn's callback
WriteFailedUnreported(err) == FALSE
WriteFailed(err) == err

Faults(h) == h.deviceErrs + h.saveErrs + h.taskErrs
MayFail == Faults(hist) < MaxFaults

\* the light's waterfall ends with err: the callback pending.add() gave is
\* called with it, jsonSaveFn is not
ChainFailed(c, p) ==
    [c EXCEPT !.pcp = At("failed"), !.hist = Bump(c.hist, "reported")]

\* mapSeries' callback gets err: the final function hands it to photographer's
\* callback, which prints it and calls process.exit(1)
Exit(c) ==
    [c EXCEPT !.ms.pc = "error", !.ms.doc = EmptyText, !.memo = ZeroPer({}),
              !.hist = Bump(c.hist, "reported")]

\* what a callback leaves behind; with the process gone nothing is in flight
CommitRun(c, p) ==
    /\ json' = c.json
    /\ lastSavedJson' = c.last
    /\ taskMemo' = c.memo
    /\ hist' = c.hist
    /\ ms' = c.ms
    /\ pc' = IF c.ms.pc = "error" THEN [q \in Positions |-> At("exit")]
             ELSE [pc EXCEPT ![p] = c.pcp]

AfterTask(err, cOk, cFail) == IF TaskFailed(err) THEN cFail ELSE cOk

FaultRest == <<opts, ledsPerStrip, files, disk, now, run>>

\* lightsOff for the dark frame fails: photographDarkness hands err to
\* photographLed's callback, which calls finalCallback(err); photoCallback
\* (nextPhoto) is not called
DarkOffFail(p) ==
    /\ p \in Positions /\ MayFail
    /\ pc[p].at = "darkOff"
    /\ LET c == [Ctx EXCEPT !.hist = Bump(hist, "deviceErrs")]
       IN  IF DeviceFailed(TRUE)
           THEN CommitRun(ChainFailed(c, p), p)
           ELSE CommitRun([c EXCEPT !.pcp = [pc[p] EXCEPT !.at = "darkShot"]], p)
    /\ UNCHANGED FaultRest

\* takePicture for the dark frame fails: the same way
DarkShotFail(p) ==
    /\ p \in Positions /\ MayFail
    /\ pc[p].at = "darkShot"
    /\ LET c == [Ctx EXCEPT !.hist = Bump(hist, "deviceErrs")]
       IN  IF DeviceFailed(TRUE)
           THEN CommitRun(ChainFailed(c, p), p)
           ELSE CommitRun([c EXCEPT !.pcp = [pc[p] EXCEPT !.at = "darkWrite"]], p)
    /\ UNCHANGED FaultRest

\* the dark frame's raw write fails: finalCallback(err), which for a dark
\* frame is photographLed's callback
DarkWriteFail(p) ==
    /\ p \in Positions /\ MayFail
    /\ pc[p].at = "darkWrite"
    /\ LET c == [Ctx EXCEPT !.hist = Bump(hist, "taskErrs")]
       IN  CommitRun(AfterTask(TRUE,
                 [c EXCEPT !.json.darkFrames[pc[p].dark + 1].rawFile = TRUE,
                           !.json.leds[p].darkFrame = pc[p].dark,
                           !.pcp = At("single"),
                           !.hist = Bump(c.hist, "lightCmds")],
                 ChainFailed(c, p)), p)
    /\ UNCHANGED FaultRest

\* singleLight fails: prepFn's callback gets err, photoCallback(err) is
\* nextPhoto(err), which is mapSeries' callback(err)
SingleFail(p) ==
    /\ p \in Positions /\ MayFail
    /\ pc[p].at = "single"
    /\ LET c == [Ctx EXCEPT !.hist = Bump(hist, "deviceErrs")]
       IN  IF DeviceFailed(TRUE)
           THEN CommitRun(Exit(c), p)
           ELSE CommitRun([c EXCEPT !.pcp = At("shot"),
                                    !.hist = BumpAt(c.hist, "shots", p)], p)
    /\ UNCHANGED FaultRest

\* takePicture for the light fails: photoCallback(err)
ShotFail(p) ==
    /\ p \in Positions /\ MayFail
    /\ pc[p].at = "shot"
    /\ LET c == [Ctx EXCEPT !.hist = Bump(hist, "deviceErrs")]
       IN  IF DeviceFailed(TRUE)
           THEN CommitRun(Exit(c), p)
           ELSE CommitRun([nextPhoto(c, p) EXCEPT !.pcp = At("rawWrite")], p)
    /\ UNCHANGED FaultRest

\* the light's raw write fails: finalCallback(err), rawFile is not recorded
RawWriteFail(p) ==
    /\ p \in Positions /\ MayFail
    /\ pc[p].at = "rawWrite"
    /\ LET c == [Ctx EXCEPT !.hist = Bump(hist, "taskErrs")]
       IN  CommitRun(AfterTask(TRUE,
                 FromThumb([c EXCEPT !.json.leds[p].rawFile = TRUE], files, p),
                 ChainFailed(c, p)), p)
    /\ UNCHANGED FaultRest

\* the thumbnailer fails for the light's thumbnail
ThumbFail(p) ==
    /\ p \in Positions /\ MayFail
    /\ pc[p].at = "thumbW"
    /\ LET c == [Ctx EXCEPT !.hist = Bump(hist, "taskErrs")]
       IN  CommitRun(AfterTask(TRUE,
                 FromPeak([c EXCEPT !.json.leds[p].thumbFile = TRUE], files, p),
                 ChainFailed(c, p)), p)
    /\ UNCHANGED FaultRest

\* the thumbnailer fails for the dark frame's thumbnail
DarkThumbFail(p) ==
    /\ p \in Positions /\ MayFail
    /\ pc[p].at = "darkThumbW"
    /\ LET c == [Ctx EXCEPT !.hist = Bump(hist, "taskErrs")]
           darkIndex == json.leds[p].darkFrame
       IN  CommitRun(AfterTask(TRUE,
                 [c EXCEPT !.json.darkFrames[darkIndex + 1].thumbFile = TRUE,
                           !.pcp = At("peakW"),
                           !.hist = BumpAt(c.hist, "peakCalls", p)],
                 ChainFailed(c, p)), p)
    /\ UNCHANGED FaultRest

\* calculatePeakDiff fails
PeakFail(p) ==
    /\ p \in Positions /\ MayFail
    /\ pc[p].at = "peakW"
    /\ LET c == [Ctx EXCEPT !.hist = Bump(hist, "taskErrs")]
       IN  CommitRun(AfterTask(TRUE, FromStrip(c, files, p), ChainFailed(c, p)), p)
    /\ UNCHANGED FaultRest

\* extractDarkPGM fails: callback(err) is the callback of the light that
\* started the task; complete() is not called, so the entry stays in the
\* ledger and the lights queued on it are not called
PgmFail(p) ==
    /\ p \in Positions /\ MayFail
    /\ pc[p].at = "pgmW"
    /\ LET c == [Ctx EXCEPT !.hist = Bump(hist, "taskErrs")]
           index == json.leds[p].darkFrame
       IN  CommitRun(AfterTask(TRUE,
                 [c EXCEPT !.json.darkFrames[index + 1].pgmFile = TRUE,
                           !.pcp = At("lightW"),
                           !.hist = PgmCallback(c.hist, p)],
                 ChainFailed(c, p)), p)
    /\ UNCHANGED FaultRest

\* calculateLightImage fails
LightFail(p) ==
    /\ p \in Positions /\ MayFail
    /\ pc[p].at = "lightW"
    /\ LET c == [Ctx EXCEPT !.hist = Bump(hist, "taskErrs")]
       IN  CommitRun(AfterTask(TRUE,
                 FromMoments([c EXCEPT !.json.leds[p].lightmap = "file"], files, p),
                 ChainFailed(c, p)), p)
    /\ UNCHANGED FaultRest

\* calculateMoments fails
MomentsFail(p) ==
    /\ p \in Positions /\ MayFail
    /\ pc[p].at = "momentsW"
    /\ LET c == [Ctx EXCEPT !.hist = Bump(hist, "taskErrs")]
       IN  CommitRun(AfterTask(TRUE,
                 FromSave([c EXCEPT !.json.leds[p].lightmap = "moments"], p),
                 ChainFailed(c, p)), p)
    /\ UNCHANGED FaultRest

\* the chain's checkpoint write fails: the callback pending.add() gave gets err
SaveFail(p) ==
    /\ p \in Positions /\ MayFail
    /\ pc[p].at = "saveW"
    /\ LET c == [Ctx EXCEPT !.hist = Bump(hist, "saveErrs")]
       IN  IF WriteFailed(TRUE)
           THEN CommitRun(ChainFailed(c, p), p)
           ELSE CommitRun([c EXCEPT !.pcp = At("done")], p)
    /\ UNCHANGED FaultRest

\* nextPhoto's checkpoint write fails: mapSeries' callback gets err
SeqSaveFail ==
    /\ MayFail
    /\ ms.pc = "save"
    /\ LET c == [Ctx EXCEPT !.hist = Bump(hist, "saveErrs"), !.ms.doc = EmptyText]
       IN  /\ IF WriteFailed(TRUE)
              THEN ms' = Exit(c).ms /\ hist' = Exit(c).hist
                   /\ taskMemo' = Exit(c).memo
                   /\ pc' = [q \in Positions |-> At("exit")]
              ELSE ms' = Advance(c).ms /\ hist' = Advance(c).hist
                   /\ UNCHANGED <<taskMemo, pc>>
    /\ UNCHANGED <<json, lastSavedJson>>
    /\ UNCHANGED FaultRest

\* ioClose: lightsOff fails; the final waterfall ends with err, the socket
\* stays open and jsonSaveFn is not called
CloseFail ==
    /\ MayFail
    /\ ms.pc = "close"
    /\ ms' = [ms EXCEPT !.pc = "wait"]
    /\ hist' = Bump(Bump(hist, "deviceErrs"), "reported")
    /\ UNCHANGED <<json, lastSavedJson, taskMemo, pc>>
    /\ UNCHANGED FaultRest

\* the final checkpoint write fails: the callback pending.add() gave gets err
FinalSaveFail ==
    /\ MayFail
    /\ ms.pc = "finalSave"
    /\ ms' = [ms EXCEPT !.pc = "wait", !.doc = EmptyText]
    /\ hist' = IF WriteFailed(TRUE)
               THEN Bump(Bump(hist, "saveErrs"), "reported")
               ELSE Bump(hist, "saveErrs")
    /\ UNCHANGED <<json, lastSavedJson, taskMemo, pc>>
    /\ UNCHANGED FaultRest

\* --maxgap 0: one missing light ends the strip
FaultInit == InitOf(FaultStripLeds, {EmptyStore, PhotographedStore}) /\ opts.maxgap = 0

FaultNext ==
    \/ Next
    \/ \E p \in Slots : DarkOffFail(p)
    \/ \E p \in Slots : DarkShotFail(p)
    \/ \E p \in Slots : DarkWriteFail(p)
    \/ \E p \in Slots : SingleFail(p)
    \/ \E p \in Slots : ShotFail(p)
    \/ \E p \in Slots : RawWriteFail(p)
    \/ \E p \in Slots : ThumbFail(p)
    \/ \E p \in Slots : DarkThumbFail(p)
    \/ \E p \in Slots : PeakFail(p)
    \/ \E p \in Slots : PgmFail(p)
    \/ \E p \in Slots : LightFail(p)
    \/ \E p \in Slots : MomentsFail(p)
    \/ \E p \in Slots : SaveFail(p)
    \/ SeqSaveFail \/ CloseFail \/ FinalSaveFail

SpecFaults == FaultInit /\ [][FaultNext]_vars

(***************************************************************************)
(* The store alone: the document changes, jsonSaveFn checkpoints it, and   *)
(* the process may die at any moment and be started again.  A checkpoint   *)
(* write is followed through the steps of atomic-write: the text goes to   *)
(* a temporary file in the data directory, which is then renamed to        *)
(* photos.json.  ms.writes holds the writes in flight, hist.held every     *)
(* document the store has held.                                            *)
(***************************************************************************)
\* aWrite.writeFile, not fs.writeFile: photos.json is replaced by rename
PlainWrite == FALSE
AtomicReplace == TRUE

\* a text of which only a part has reached the file
Torn(text) == [keys |-> text.keys, doc |-> text.doc, torn |-> TRUE]

\* the documents of a strip of one light whose peakDiff is v
StoreDoc(v) == [EmptyDoc(1) EXCEPT !.random = TRUE, !.leds[0].peakDiff = v]
StoreDocs == {StoreDoc(v) : v \in {Undef} \cup WorkerPeaks}

StoreInit ==
    /\ opts = [maxgap |-> 0]
    /\ ledsPerStrip = 1
    /\ files = {}
    /\ disk = [exists |-> FALSE, text |-> EmptyText]
    /\ lastSavedJson = EmptyText
    /\ json = StoreDoc(Undef)
    /\ taskMemo = ZeroPer({})
    /\ pc = [p \in Positions |-> At("idle")]
    /\ ms = [pc |-> "store", writes |-> << >>]
    /\ now = 0
    /\ run = 1
    /\ hist = [held |-> {json}, midWrite |-> FALSE]

StoreRest == <<opts, ledsPerStrip, files, taskMemo, pc, now, run>>

\* a callback assigns to the document
StoreModify(j) ==
    /\ ms.pc = "store"
    /\ j # json
    /\ json' = j
    /\ hist' = [hist EXCEPT !.held = @ \cup {j}]
    /\ UNCHANGED <<disk, lastSavedJson, ms>>
    /\ UNCHANGED StoreRest

\* jsonSaveFn: the text is made now, and its write is started if it differs
StoreCheckpoint ==
    /\ ms.pc = "store"
    /\ SaveNeeded(json, lastSavedJson)
    /\ Len(ms.writes) < MaxWrites
    /\ lastSavedJson' = Stringify(json)
    /\ ms' = [ms EXCEPT !.writes = Append(@, [text |-> Stringify(json), phase |-> "start"])]
    /\ UNCHANGED <<json, disk, hist>>
    /\ UNCHANGED StoreRest

\* the first part of the text has been written: to the temporary file, or
\* to photos.json itself if the write is made in place
WriteBegin(i) ==
    /\ ms.pc = "store"
    /\ i \in 1 .. Len(ms.writes)
    /\ ms.writes[i].phase = "start"
    /\ ms' = [ms EXCEPT !.writes[i].phase = "part"]
    /\ disk' = IF AtomicReplace THEN disk
               ELSE [exists |-> TRUE, text |-> Torn(ms.writes[i].text)]
    /\ UNCHANGED <<json, lastSavedJson, hist>>
    /\ UNCHANGED StoreRest

\* the rest of the text has been written
WriteEnd(i) ==
    /\ ms.pc = "store"
    /\ i \in 1 .. Len(ms.writes)
    /\ ms.writes[i].phase = "part"
    /\ ms' = [ms EXCEPT !.writes[i].phase = "full"]
    /\ disk' = IF AtomicReplace THEN disk
               ELSE [exists |-> TRUE, text |-> ms.writes[i].text]
    /\ UNCHANGED <<json, lastSavedJson, hist>>
    /\ UNCHANGED StoreRest

\* the temporary file has been renamed to photos.json; the callback is called
WriteRename(i) ==
    /\ ms.pc = "store"
    /\ i \in 1 .. Len(ms.writes)
    /\ ms.writes[i].phase = "full"
    /\ ms' = [ms EXCEPT !.writes = SubSeq(@, 1, i - 1) \o SubSeq(@, i + 1, Len(@))]
    /\ disk' = IF AtomicReplace THEN [exists |-> TRUE, text |-> ms.writes[i].text]
               ELSE disk
    /\ UNCHANGED <<json, lastSavedJson, hist>>
    /\ UNCHANGED StoreRest

\* the process dies, whatever is in flight; the program is started again and
\* loads photos.json (JSON.parse throws on a text that is not whole)
StoreCrash ==
    /\ ms.pc = "store"
    /\ run < MaxRuns
    /\ run' = run + 1
    /\ IF disk.exists /\ disk.text \notin {Stringify(j) : j \in StoreDocs}
       THEN /\ ms' = [pc |-> "parseError", writes |-> << >>]
            /\ UNCHANGED <<json, lastSavedJson>>
            /\ hist' = [hist EXCEPT !.midWrite = TRUE]
       ELSE LET text == IF disk.exists THEN disk.text ELSE EmptyText
                j == [Parse(text) EXCEPT !.random = TRUE]
            IN  /\ ms' = [pc |-> "store", writes |-> << >>]
                /\ lastSavedJson' = text
                /\ json' = j
                /\ hist' = [held |-> hist.held \cup {j},
                            midWrite |-> hist.midWrite \/
                                \E i \in 1 .. Len(ms.writes) :
                                    ms.writes[i].phase \in {"part", "full"}]
    /\ UNCHANGED <<opts, ledsPerStrip, files, disk, taskMemo, pc, now>>

StoreNext ==
    \/ \E j \in StoreDocs : StoreModify(j)
    \/ StoreCheckpoint
    \/ \E i \in 1 .. MaxWrites : WriteBegin(i)
    \/ \E i \in 1 .. MaxWrites : WriteEnd(i)
    \/ \E i \in 1 .. MaxWrites : WriteRename(i)
    \/ StoreCrash

SpecStore == StoreInit /\ [][StoreNext]_vars

(***************************************************************************)
(* The strip-length model: a strip in any state of measurement, to which   *)
(* updateStripLength is applied, alone or after a further peakDiff.        *)
(***************************************************************************)
Measured(v) == [EmptyLed EXCEPT !.exists = TRUE, !.peakDiff = v]
LedStates == {EmptyLed, [EmptyLed EXCEPT !.exists = TRUE]}
               \cup {Measured(v) : v \in PeakVals}

\* measured strips that begin as the examples of the strip-inference property do
ExampleGapOfTwo == <<50, 60, 55, 3, 2, 45>>
ExampleGapOfThree == <<50, 60, 55, 3, 2, 2>>
ExampleGapOfOne == <<50, 3, 60, 55>>
ExampleGapOpen == <<50, 60, 55, 3, 2>>
ExamplePrefixes == {<< >>, ExampleGapOfTwo, ExampleGapOfThree, ExampleGapOfOne,
                    ExampleGapOpen}

BeginsWith(leds, n, ex) ==
    /\ Len(ex) <= n
    /\ \A i \in 0 .. (Len(ex) - 1) : leds[i] = Measured(ex[i + 1])

StripInit ==
    /\ opts = [maxgap |-> 2]
    /\ ledsPerStrip \in 1 .. ScanStripLeds
    /\ \E ex \in ExamplePrefixes :
          /\ Len(ex) <= ledsPerStrip
          /\ \E rest \in [Len(ex) .. (ledsPerStrip - 1) -> LedStates] :
                json = [EmptyDoc(ledsPerStrip) EXCEPT
                           !.dev = TRUE,
                           !.leds = [i \in 0 .. (ledsPerStrip - 1) |->
                                        IF i < Len(ex) THEN Measured(ex[i + 1])
                                        ELSE rest[i]]]
    /\ files = {}
    /\ disk = [exists |-> FALSE, text |-> EmptyText]
    /\ lastSavedJson = EmptyText
    /\ taskMemo = ZeroPer({})
    /\ pc = [p \in Positions |-> At("idle")]
    /\ ms = [pc |-> "strip", next |-> 0, doc |-> EmptyText]
    /\ now = 0
    /\ run = 1
    /\ hist = [calls |-> 0, blocked |-> FALSE]

StripRest == <<opts, ledsPerStrip, files, disk, lastSavedJson, taskMemo, pc, ms, now, run>>

\* a chain whose peakDiff is already recorded reaches updateStripLength
StripUpdate ==
    /\ ms.pc = "strip"
    /\ json' = updateStripLength(json)
    /\ hist' = [calls |-> 1, blocked |-> hist.blocked \/ json'.length = Undef]
    /\ UNCHANGED StripRest

\* calculatePeakDiff returns v for the light at position i, then updateStripLength
StripPeakDiff(i, v) ==
    /\ ms.pc = "strip"
    /\ ~PeakDiffKnown(json.leds[i])
    /\ json' = updateStripLength([json EXCEPT !.leds[i].exists = TRUE,
                                              !.leds[i].peakDiff = v])
    /\ hist' = [calls |-> 1, blocked |-> hist.blocked \/ json'.length = Undef]
    /\ UNCHANGED StripRest

StripNext ==
    \/ StripUpdate
    \/ \E i \in Positions, v \in PeakVals : StripPeakDiff(i, v)

SpecStrip == StripInit /\ [][StripNext]_vars

(***************************************************************************)
(* Properties of the strip-length inference (SpecStrip).  They describe    *)
(* the strip by its measurements alone, not by the scan.                   *)
(***************************************************************************)
HasPeak(leds, i) == leds[i].exists /\ leds[i].peakDiff # Undef
Missing(leds, i) == HasPeak(leds, i) /\ leds[i].peakDiff < noisethreshold
\* k consecutive measured, below-threshold positions starting at g
MissingRun(leds, g, k) ==
    /\ g + k <= ledsPerStrip
    /\ \A i \in g .. (g + k - 1) : Missing(leds, i)
AllMeasured(leds) == \A i \in Positions : HasPeak(leds, i)
\* the strip has a gap that ends it: more than maxgap missing in a row
HasEndingGap(leds) == \E g \in Positions : MissingRun(leds, g, opts.maxgap + 1)
\* the first position without a record or without a peakDiff is reached
\* before any ending gap has been seen in full
ScanBlocked(leds) ==
    \E i \in Positions :
        /\ ~HasPeak(leds, i)
        /\ \A k \in 0 .. (i - 1) : HasPeak(leds, k)
        /\ ~\E g \in 0 .. (i - 1) :
               g + opts.maxgap < i /\ MissingRun(leds, g, opts.maxgap + 1)

\* C4 (as the code has it): the strip ends at the start of the first run of
\* maxgap + 1 consecutive below-threshold lights, that is when more than maxgap
\* lights are missing in a row.  [50,60,55,3,2,2] gives length 3, while
\* [50,60,55,3,2,45] on a strip of 6 gives length 6: position 5 is consulted.
StripEndsAfterMoreThanMaxGap ==
    hist.calls = 1 =>
        /\ (json.length # Undef /\ json.length < ledsPerStrip) =>
              /\ MissingRun(json.leds, json.length, opts.maxgap + 1)
              /\ \A g \in 0 .. (json.length - 1) :
                     ~MissingRun(json.leds, g, opts.maxgap + 1)
        /\ BeginsWith(json.leds, ledsPerStrip, ExampleGapOfThree) => json.length = 3
        /\ (BeginsWith(json.leds, ledsPerStrip, ExampleGapOfTwo) /\ ledsPerStrip = 6)
              => json.length = 6
        /\ (BeginsWith(json.leds, ledsPerStrip, ExampleGapOpen)
              /\ ledsPerStrip = 6 /\ ~HasPeak(json.leds, 5)) => json.length = Undef

\* a strip with three missing lights in a row has been given length 3
GapOfThreeEndsStrip ==
    /\ hist.calls = 1
    /\ BeginsWith(json.leds, ledsPerStrip, ExampleGapOfThree)
    /\ json.length = 3

\* C4 as stated: [50,60,55,3,2,45] with maxgap 2 gives length 3
GapOfMaxGapEndsStrip ==
    (hist.calls = 1 /\ BeginsWith(json.leds, ledsPerStrip, ExampleGapOfTwo))
        => json.length = 3

\* C5: a strip whose positions all have a peakDiff and in which no run of
\* below-threshold lights reaches the ending length (maxgap + 1) gets the full
\* strip capacity as its length, and a length short of the capacity always
\* has at least maxgap missing lights from that position on.
ShortGapNeverEndsStrip ==
    hist.calls = 1 =>
        /\ (AllMeasured(json.leds) /\ ~HasEndingGap(json.leds))
              => json.length = ledsPerStrip
        /\ (json.length # Undef /\ json.length < ledsPerStrip)
              => MissingRun(json.leds, json.length, opts.maxgap)

\* [50,3,60,55] on a strip of 4 has been given length 4
GapOfOneKeepsFullLength ==
    /\ hist.calls = 1
    /\ ledsPerStrip = 4
    /\ BeginsWith(json.leds, ledsPerStrip, ExampleGapOfOne)
    /\ json.length = 4

\* C6: a call of updateStripLength on a strip without a length, whose scan
\* reaches a light with no record or no peakDiff before an ending gap, leaves
\* the length undefined and changes nothing but the measurement that led to
\* the call; a call whose scan is not so blocked sets the length.
BlockedScanLeavesLengthUndefined ==
    [][json.length = Undef =>
          IF ScanBlocked(json'.leds)
          THEN /\ json'.length = Undef
               /\ json'.dev = json.dev /\ json'.random = json.random
               /\ json'.darkFrames = json.darkFrames
               /\ Cardinality({i \in Positions : json'.leds[i] # json.leds[i]}) <= 1
               /\ \A i \in Positions :
                      json'.leds[i] # json.leds[i] =>
                          /\ ~PeakDiffKnown(json.leds[i])
                          /\ json'.leds[i] = [json.leds[i] EXCEPT
                                                 !.exists = TRUE,
                                                 !.peakDiff = json'.leds[i].peakDiff]
          ELSE json'.length # Undef]_vars

\* a call returned without a length, and a later call has concluded
BlockedThenConcluded ==
    /\ hist.calls = 1
    /\ hist.blocked
    /\ json.length # Undef

(***************************************************************************)
(* Properties of the pipeline.                                             *)
(***************************************************************************)
Acquiring == {"darkOff", "darkShot", "darkWrite", "single", "shot"}
Capturing == {"darkShot", "shot"}

\* C2: at most one capture (of a light or of a dark frame) is in flight, at
\* most one light is in its acquisition step, and a light is not visited
\* before the photo-done continuation of every earlier light has been invoked.
SerialCapture ==
    /\ Cardinality({p \in Positions : pc[p].at \in Capturing}) <= 1
    /\ Cardinality({p \in Positions : pc[p].at \in Acquiring}) <= 1
    /\ \A p \in Positions :
           ms.next > p => \A q \in 0 .. (p - 1) : hist.photoCb[q] >= 1

\* the second light is being photographed while the first light's photo,
\* taken in this run, is still being reduced
SecondCaptureBesideFirstChain ==
    /\ ledsPerStrip >= 2
    /\ hist.shots[0] = 1
    /\ pc[0].at \in {"rawWrite", "thumbW", "darkThumbW", "peakW"}
    /\ pc[1].at = "shot"

\* C3: extractDarkPGM is called at most once for a dark frame, also when
\* several lights ask for the frame's PGM while the call is in flight; each
\* light's completion is invoked at most once and only with pgmFile recorded,
\* and a light waits for the PGM only while the frame is in the task ledger.
DarkPgmOnce ==
    /\ \A d \in DOMAIN hist.pgmCalls : hist.pgmCalls[d] <= 1
    /\ \A p \in Positions :
          /\ hist.pgmCb[p] <= 1
          /\ hist.pgmCb[p] = 1 =>
                /\ Frame(json, json.leds[p].darkFrame).pgmFile
                /\ PgmFileOf(DarkName(json.leds[p].darkFrame)) \in files
          /\ pc[p].at \in {"pgmW", "pgmWait"} =>
                /\ json.leds[p].darkFrame \in DOMAIN taskMemo
                /\ Cardinality({i \in 1 .. Len(taskMemo[json.leds[p].darkFrame]) :
                                   taskMemo[json.leds[p].darkFrame][i] = p}) = 1
    /\ \A d \in DOMAIN taskMemo :
           \E p \in Positions : pc[p].at = "pgmW" /\ json.leds[p].darkFrame = d

\* two lights shared a dark frame, one joined the other's request in flight,
\* and both completions have been invoked after the one worker call
TwoRequestersOnePgm ==
    /\ ledsPerStrip >= 2
    /\ json.leds[0].darkFrame = json.leds[1].darkFrame
    /\ hist.pgmJoins = 1
    /\ hist.pgmCb[0] = 1 /\ hist.pgmCb[1] = 1
    /\ hist.pgmCalls[json.leds[0].darkFrame] = 1

\* C8: once the strip's length is set, no step of the run changes it.
LengthSetOnce ==
    [][json.length # Undef => json'.length = json.length]_vars

\* a peakDiff arrived on the strip after its length had been set
PeakDiffAfterLength ==
    /\ hist.peaksAfterLength >= 1
    /\ json.length # Undef

(***************************************************************************)
(* Properties of restarts (SpecRestart).                                   *)
(***************************************************************************)
\* the light at position p is visited in this step
Visited(p) == ms.pc = "call" /\ ms.next = p /\ ms'.next = p + 1
NoWorkerCalls ==
    /\ \A p \in Positions :
          /\ hist.thumbCalls[p] = 0 /\ hist.peakCalls[p] = 0
          /\ hist.lightCalls[p] = 0 /\ hist.momentsCalls[p] = 0
    /\ DOMAIN hist.pgmCalls = {} /\ DOMAIN hist.darkThumbCalls = {}
NoCaptures == hist.darkShots = 0 /\ \A p \in Positions : hist.shots[p] = 0

\* C1: a second run over the data directory of a run that printed "Done.",
\* with no file changed in between, sends no lighting command to photograph
\* anything, takes no photo, calls no worker, and leaves photos.json as it was.
SecondRunDoesNothing ==
    (run >= 2 /\ hist.clean /\ ms.pc = "done") =>
        /\ hist.lightCmds = 0
        /\ NoCaptures
        /\ NoWorkerCalls
        /\ disk = hist.start.disk

\* C7: a light visited while its strip's length is set and its position is
\* not below that length gets no lighting command and no capture, no light or
\* dark frame record is made or changed, and both its photo-done and its
\* final continuation are invoked in that step, whatever files are missing.
BeyondLengthIsSkipped ==
    [][\A p \in Positions :
          (Visited(p) /\ json.length # Undef /\ p >= json.length) =>
              /\ hist'.lightCmds = hist.lightCmds
              /\ hist'.darkShots = hist.darkShots
              /\ hist'.shots = hist.shots
              /\ hist'.thumbCalls = hist.thumbCalls
              /\ json'.leds = json.leds
              /\ json'.darkFrames = json.darkFrames
              /\ json'.length = json.length
              /\ hist'.photoCb[p] = hist.photoCb[p] + 1
              /\ hist'.finalCb[p] = hist.finalCb[p] + 1
              /\ pc'[p].at \in {"saveW", "done"}]_vars

\* a light whose raw photo has been removed was skipped, being beyond the length
SkippedWithoutItsPhoto ==
    /\ run >= 2
    /\ hist.gone = {RawFileOf(LedName(0))}
    /\ hist.start.json.length = 0
    /\ hist.photoCb[0] = 1 /\ hist.finalCb[0] = 1
    /\ NoCaptures

\* the last dark frame is recent enough at time t
Fresh(j, t) ==
    /\ Len(j.darkFrames) >= 1
    /\ j.darkFrames[Len(j.darkFrames)].timestamp # Undef
    /\ t - j.darkFrames[Len(j.darkFrames)].timestamp < darkinterval
\* the light at position p, which needs a photo, is processed in this step
Processed(p) == Visited(p) /\ hist'.lightCmds = hist.lightCmds + 1

\* C9 (as the code has it): when a light that needs a photo is processed at
\* time t and the last dark frame has a timestamp T with t - T < darkinterval,
\* that frame's index is the one the light gets; no dark frame is taken if the
\* frame's raw file is recorded and on disk, and otherwise the frame is taken
\* again under the same index.  When the last frame is older (or there is
\* none), a frame is made with the next index, above every existing one.  In
\* both cases the light is photographed only once its darkFrame is set and
\* that frame's raw file has been written.
FreshDarkFrameReused ==
    /\ [][\A p \in Positions :
             Processed(p) =>
                 LET last == Len(json.darkFrames) - 1
                 IN  IF Fresh(json, now')
                     THEN /\ json'.darkFrames = json.darkFrames
                          /\ IF json.darkFrames[last + 1].rawFile
                                /\ RawFileOf(DarkName(last)) \in files
                             THEN /\ pc'[p].at = "single"
                                  /\ json'.leds[p].darkFrame = last
                                  /\ hist'.darkShots = hist.darkShots
                             ELSE /\ pc'[p].at = "darkOff"
                                  /\ pc'[p].dark = last
                     ELSE /\ json'.darkFrames = Append(json.darkFrames, EmptyFrame)
                          /\ pc'[p].at = "darkOff"
                          /\ pc'[p].dark = last + 1]_vars
    /\ [](\A p \in Positions :
             pc[p].at \in {"single", "shot"} =>
                 /\ json.leds[p].darkFrame # Undef
                 /\ json.leds[p].darkFrame < Len(json.darkFrames)
                 /\ Frame(json, json.leds[p].darkFrame).rawFile
                 /\ RawFileOf(DarkName(json.leds[p].darkFrame)) \in files)

\* in the second run a light was photographed against the dark frame the
\* first run took, without a new dark frame
PhotographedAgainstEarlierFrame ==
    /\ run >= 2
    /\ hist.shots[0] = 1
    /\ hist.darkShots = 0
    /\ json.leds[0].darkFrame = 0
    /\ Len(json.darkFrames) = 1

\* C9 as stated: no dark frame is taken whenever the last one is recent enough
FreshDarkFrameNeverRetaken ==
    [][\A p \in Positions :
          (Processed(p) /\ Fresh(json, now')) =>
              /\ pc'[p].at = "single"
              /\ json'.leds[p].darkFrame = Len(json.darkFrames) - 1]_vars

\* the record of light p is complete and only its thumbnail file is missing
OnlyThumbnailGone(p) ==
    LET jLed == hist.start.json.leds[p]
    IN  /\ run >= 2
        /\ hist.gone = {ThumbFileOf(LedName(p))}
        /\ jLed.exists /\ jLed.rawFile /\ jLed.thumbFile
        /\ RawFileOf(LedName(p)) \in hist.start.files
        /\ jLed.peakDiff # Undef
        /\ IF jLed.peakDiff >= noisethreshold
           THEN jLed.lightmap = "moments" /\ LightFileOf(LedName(p)) \in hist.start.files
           ELSE jLed.lightmap = "none"
KeepsPhoto(p) ==
    /\ hist.shots[p] = 0
    /\ pc[p].at \notin Acquiring
    /\ json.leds[p].rawFile = hist.start.json.leds[p].rawFile
    /\ json.leds[p].timestamp = hist.start.json.leds[p].timestamp
    /\ RawFileOf(LedName(p)) \in files

RawPresentNothingTaken ==
    [][\A p \in Positions :
          (Visited(p) /\ json.leds[p].rawFile /\ RawFileOf(LedName(p)) \in files) =>
              /\ hist'.lightCmds = hist.lightCmds
              /\ hist'.darkShots = hist.darkShots
              /\ hist'.shots = hist.shots
              /\ pc'[p].at \notin Acquiring
              /\ json'.leds[p].timestamp = json.leds[p].timestamp
              /\ json'.leds[p].rawFile = json.leds[p].rawFile
              /\ json'.leds[p].darkFrame = json.leds[p].darkFrame
              /\ json'.darkFrames = json.darkFrames]_vars

\* a light inside the strip, photographed by the first run against a dark
\* frame that is a whole dark interval old by now, has been visited by the
\* second run, and its reduction goes on from the photo it has
VisitedWithOldDarkFrame ==
    /\ run >= 2
    /\ hist.start.json.leds[0].rawFile
    /\ RawFileOf(LedName(0)) \in hist.start.files
    /\ ~BeyondLength(hist.start.json, 0)
    /\ now - Frame(json, json.leds[0].darkFrame).timestamp >= darkinterval
    /\ hist.photoCb[0] = 1
    /\ hist.thumbCalls[0] = 1
    /\ hist.lightCmds = 0 /\ NoCaptures

(***************************************************************************)
(* Properties of the end of a run (Spec).                                  *)
(***************************************************************************)
Reducing == {"rawWrite", "thumbW", "darkThumbW", "peakW", "pgmW", "pgmWait",
             "lightW", "momentsW"}

\* C12 (as the code has it): in the step in which the last light's capture
\* step returns (its photo-done continuation, and the checkpoint that follows
\* it, have completed), the lights-off command of ioClose is sent, whatever
\* reduction chains are outstanding; in the step in which that command is
\* acknowledged the checkpoint of the final function is made, with a write
\* exactly when the document differs from the last saved text; that happens
\* once in a run.
CloseAtOnceAfterLastCapture ==
    /\ [][(ms.pc \in {"call", "busy", "save"} /\ ms'.next = ledsPerStrip
              /\ ms'.pc \notin {"busy", "save"}) =>
             /\ ms'.pc = "close"
             /\ hist'.closeCmds = hist.closeCmds + 1]_vars
    /\ [][(ms.pc = "close" /\ ms'.pc # "close") =>
             IF Stringify(json) # lastSavedJson
             THEN /\ ms'.pc = "finalSave"
                  /\ ms'.doc = Stringify(json)
                  /\ lastSavedJson' = Stringify(json)
             ELSE ms'.pc = "wait" /\ lastSavedJson' = lastSavedJson]_vars
    /\ [](hist.closeCmds <= 1)

\* the final checkpoint is being written while the last light's photo, taken
\* in this run, is still in its reduction chain
FinalCheckpointBesideChain ==
    /\ ms.pc = "finalSave"
    /\ hist.closeCmds = 1
    /\ hist.shots[ledsPerStrip - 1] = 1
    /\ pc[ledsPerStrip - 1].at \in Reducing

\* C12 as stated: ioClose and the final checkpoint come only when every
\* reduction chain has finished
CloseWaitsForChains ==
    hist.closeCmds >= 1 => \A p \in Positions : pc[p].at = "done"

\* C13: when the run has reported completion (the worker farms ended, "Done."
\* printed), every light's chain has invoked its final continuation and made
\* its trailing checkpoint, no checkpoint write and no worker task is in
\* flight, the task ledger is empty, and no worker is called from then on.
CompletionAfterEveryChain ==
    /\ [](ms.pc = "done" =>
             /\ \A p \in Positions : pc[p].at = "done" /\ hist.finalCb[p] = 1
             /\ ms.doc = EmptyText
             /\ DOMAIN taskMemo = {})
    /\ [][ms.pc = "done" =>
             /\ hist'.thumbCalls = hist.thumbCalls
             /\ hist'.darkThumbCalls = hist.darkThumbCalls
             /\ hist'.peakCalls = hist.peakCalls
             /\ hist'.pgmCalls = hist.pgmCalls
             /\ hist'.lightCalls = hist.lightCalls
             /\ hist'.momentsCalls = hist.momentsCalls]_vars

\* the run is complete after both lights were photographed and the last
\* light's moments were computed and checkpointed
DoneAfterLastMoments ==
    /\ ms.pc = "done"
    /\ \A p \in Positions : hist.shots[p] = 1
    /\ hist.momentsCalls[ledsPerStrip - 1] = 1
    /\ hist.closeCmds = 1

(***************************************************************************)
(* Properties of the checkpoint (SpecRestart).                             *)
(***************************************************************************)
\* a checkpoint write is in flight
WriteInFlight ==
    \/ ms.pc \in {"save", "finalSave"}
    \/ \E p \in Positions : pc[p].at = "saveW"
\* the run was started over a photos.json that the program itself had written
LoadedOwnRecord == hist.start.disk.exists /\ hist.start.disk.text.keys
\* nothing has been photographed or computed and the document is as it was loaded
Unmodified == NoCaptures /\ NoWorkerCalls /\ json = hist.start.json
\* SIGINT arrives in this step
Interrupted == run' = run + 1 /\ ms.pc # "done"

\* C14 (as the code has it): a record the program wrote is reproduced by
\* serializing what was loaded from it; while the document loaded from such a
\* record is unmodified, no checkpoint starts a write and photos.json stays as
\* it was at the start of the run, also when the checkpoint is the one SIGINT
\* makes; and no checkpoint starts a write of a text equal to the last saved.
UnchangedDocumentNotWritten ==
    /\ [](LoadedOwnRecord => Stringify(hist.start.json) = hist.start.disk.text)
    /\ []((LoadedOwnRecord /\ Unmodified) =>
             /\ ~WriteInFlight
             /\ lastSavedJson = hist.start.disk.text
             /\ disk = hist.start.disk)
    /\ [][(Interrupted /\ LoadedOwnRecord /\ Unmodified) => disk' = disk]_vars
    /\ [][(run' = run /\ Stringify(json') = lastSavedJson) =>
             /\ (ms'.pc \in {"save", "finalSave"} => ms.pc = ms'.pc)
             /\ \A p \in Positions : pc'[p].at = "saveW" => pc[p].at = "saveW"]_vars

\* a second run has visited the light, made its checkpoints and ended without
\* a change to the document it loaded, and photos.json is as it was
UnmodifiedRunLeftRecord ==
    /\ run >= 2
    /\ ms.pc = "done"
    /\ LoadedOwnRecord /\ Unmodified
    /\ hist.photoCb[0] = 1 /\ hist.finalCb[0] = 1
    /\ disk = hist.start.disk

\* C14 as stated: the checkpoint of an unmodified document leaves photos.json
\* identical to what was loaded, whatever that was
UnmodifiedCheckpointKeepsAnyRecord ==
    [][(Interrupted /\ Unmodified) => disk' = disk]_vars

\* C18 as stated: when SIGINT has been handled and the process is gone,
\* photos.json holds the document that was in memory when the signal came:
\* the checkpoint of it was attempted and had completed before the kill
InterruptCheckpointsDocument ==
    [][Interrupted => disk' = [exists |-> TRUE, text |-> Stringify(json)]]_vars

(***************************************************************************)
(* Properties of failures (SpecFaults).                                    *)
(***************************************************************************)
\* every artifact reference of document j names a file in f
RefsNameFiles(j, f) ==
    /\ \A p \in DOMAIN j.leds :
          /\ j.leds[p].rawFile => RawFileOf(LedName(p)) \in f
          /\ j.leds[p].thumbFile => ThumbFileOf(LedName(p)) \in f
          /\ j.leds[p].lightmap # "none" => LightFileOf(LedName(p)) \in f
    /\ \A i \in 1 .. Len(j.darkFrames) :
          /\ j.darkFrames[i].rawFile => RawFileOf(DarkName(i - 1)) \in f
          /\ j.darkFrames[i].thumbFile => ThumbFileOf(DarkName(i - 1)) \in f
          /\ j.darkFrames[i].pgmFile => PgmFileOf(DarkName(i - 1)) \in f

\* C16: in a run over a data directory whose references all name existing
\* files, from which nothing is removed, every rawFile, thumbFile, pgmFile and
\* lightmap reference of the document in memory, of photos.json and of every
\* checkpoint text in flight names a file whose write has completed, also
\* after a write or a worker task has failed.
ReferencesNameWrittenFiles ==
    /\ RefsNameFiles(json, files)
    /\ disk.exists => RefsNameFiles(Parse(disk.text), files)
    /\ RefsNameFiles(Parse(lastSavedJson), files)
    /\ RefsNameFiles(Parse(ms.doc), files)
    /\ \A p \in Positions : RefsNameFiles(Parse(pc[p].doc), files)

\* the thumbnailer failed for the first light, whose raw photo is recorded,
\* and the run went on to its end
ThumbnailFailedRunEnded ==
    /\ hist.taskErrs = 1
    /\ pc[0].at = "failed"
    /\ json.leds[0].rawFile /\ ~json.leds[0].thumbFile
    /\ hist.thumbCalls[0] = 1
    /\ ms.pc = "done"

\* C17: a step in which a checkpoint write fails leaves the document in
\* memory and photos.json as they are and hands the error to the callback
\* jsonSaveFn was given: mapSeries' callback for nextPhoto's checkpoint, which
\* ends the run, and the callback from pending.add() for a chain's or the
\* final checkpoint.
FailedCheckpointReported ==
    [][hist'.saveErrs = hist.saveErrs + 1 =>
          /\ json' = json
          /\ disk' = disk
          /\ hist'.reported = hist.reported + 1
          /\ (ms.pc = "save" /\ ms'.pc # "save") => ms'.pc = "error"
          /\ (ms.pc = "finalSave" /\ ms'.pc # "finalSave") => ms'.pc = "wait"
          /\ \A p \in Positions :
                (pc[p].at = "saveW" /\ pc'[p].at # "saveW" /\ ms'.pc = ms.pc)
                    => pc'[p].at = "failed"]_vars

\* nextPhoto's checkpoint write has failed after the first light was
\* photographed: the run has ended with the error, the photo's timestamp is
\* in the document and photos.json does not have it
CheckpointFailedAfterPhoto ==
    /\ hist.saveErrs = 1
    /\ hist.reported = 1
    /\ ms.pc = "error"
    /\ hist.shots[0] = 1
    /\ json.leds[0].timestamp # Undef
    /\ (disk.exists => Parse(disk.text).leds[0].timestamp = Undef)

\* C19 as stated: an error of a lighting command or of a capture made while
\* a light is being acquired ends the run with that error in the same step
DeviceErrorEndsRun ==
    [][(hist'.deviceErrs = hist.deviceErrs + 1 /\ ms.pc = "busy")
          => ms'.pc = "error"]_vars

\* C20 as stated: when the run has ended with a device error, the document
\* in memory is the one jsonSaveFn last looked at: a checkpoint of it has
\* been attempted
AbortCheckpointsDocument ==
    (ms.pc = "error" /\ hist.deviceErrs >= 1) => lastSavedJson = Stringify(json)

(***************************************************************************)
(* Properties of the store (SpecStore).                                    *)
(***************************************************************************)
\* C15: in every state, those after the process died in the middle of a
\* checkpoint write included, photos.json is absent or holds the whole
\* serialization of a document that the store has held.
RecordAbsentOrWhole ==
    disk.exists => disk.text \in {Stringify(j) : j \in hist.held}

\* the process died while a checkpoint write had put a part of its text or
\* all of it into its file and photos.json had not yet been replaced by it;
\* the next run has loaded the earlier record
DiedInMidWrite ==
    /\ run >= 2
    /\ hist.midWrite
    /\ disk.exists
    /\ ms.pc = "store"
    /\ json = Parse(disk.text)

(***************************************************************************)
(* Errors in a light's chain and the dark frame's thumbnail.               *)
(***************************************************************************)
\* C21 as stated: a run in which a light's raw write or a worker task of its
\* chain has failed does not complete with "Done."
ChainErrorStopsRun ==
    hist.taskErrs >= 1 => ms.pc # "done"

\* C22 as stated: the thumbnailer is called at most once for a dark frame,
\* however many lights that share the frame reach generatePeakDiff while its
\* thumbnail is missing
DarkThumbnailOnce ==
    \A d \in DOMAIN hist.darkThumbCalls : hist.darkThumbCalls[d] <= 1

(***************************************************************************)
(* The visiting order: collectLeds alone, run after run over one data      *)
(* directory.  The document is [random, dev]: the persisted state of the   *)
(* pseudorandom generator and whether the device is recorded.  ms.rng is   *)
(* the state of the run's generator, ms.order the list collectLeds         *)
(* returned, hist.seen what every run so far started from and returned.    *)
(***************************************************************************)
OrderStrips == 2        \* strips of the device in the model of the order
OrderStripLeds == 2     \* lights on each strip in the model of the order
RngStates == 8          \* states of the pseudorandom generator

Light(index) ==
    [stripIndex |-> index \div ledsPerStrip, stripPosition |-> index % ledsPerStrip]

\* fadecandy.ledsForDeviceList(devices), fadecandy.ledsForDevice(serial):
\* every light of the device, by index
ledsForDevice == [n \in 1 .. (OrderStrips * ledsPerStrip) |-> Light(n - 1)]

\* the generator: one draw moves the state on; a draw below k
RngStep(s) == (5 * s + 1) % RngStates
RngBelow(s, k) == s % k

Swap(leds, i, j) == [leds EXCEPT ![i] = leds[j], ![j] = leds[i]]

\* rng.shuffleInplace(leds): the first i lights are still to be shuffled
RECURSIVE shuffleInplace(_, _, _)
shuffleInplace(leds, i, s) ==
    IF i < 2 THEN [leds |-> leds, rng |-> s]
    ELSE LET s1 == RngStep(s)
         IN  shuffleInplace(Swap(leds, i, RngBelow(s1, i) + 1), i - 1, s1)

\* leds.sort(function (a,b) { return a.stripPosition - b.stripPosition; })
RECURSIVE SortTiesReversed(_, _)
SortTiesReversed(leds, position) ==
    IF position >= ledsPerStrip THEN << >>
    ELSE LET ties == SelectSeq(leds, LAMBDA led : led.stripPosition = position)
         IN  [i \in 1 .. Len(ties) |-> ties[Len(ties) + 1 - i]]
                 \o SortTiesReversed(leds, position + 1)
RECURSIVE SortFrom(_, _)
SortFrom(leds, position) ==
    IF position >= ledsPerStrip THEN << >>
    ELSE SelectSeq(leds, LAMBDA led : led.stripPosition = position)
             \o SortFrom(leds, position + 1)

\* leds.filter(function(led) { return led.stripIndex < opts.striplimit; })
WithinLimit(leds, striplimit) ==
    SelectSeq(leds, LAMBDA led : led.stripIndex < striplimit)

\* json.random = rng.getState() is executed before the shuffle
StateAfterShuffle(before, after) == after
StateBeforeShuffle(before, after) == before

\* the list collectLeds starts from
Candidates(o, j) ==
    IF ~o.processonly THEN ledsForDevice
    ELSE IF j.dev THEN ledsForDevice ELSE << >>

collectLeds(o, j, rng) ==
    LET state == IF j.random # Undef THEN j.random ELSE rng
        cand == Candidates(o, j)
        shuffled == IF ~o.processonly THEN shuffleInplace(cand, Len(cand), state)
                    ELSE [leds |-> cand, rng |-> state]
    IN  [random |-> StateBeforeShuffle(state, shuffled.rng),
         rng |-> shuffled.rng,
         shuffled |-> shuffled.leds,
         leds |-> WithinLimit(SortFrom(shuffled.leds, 0), o.striplimit)]

OrderDocs == {[random |-> r, dev |-> d] : r \in {Undef} \cup (0 .. (RngStates - 1)),
                                          d \in BOOLEAN}

OrderInit ==
    /\ opts \in {[maxgap |-> 0, striplimit |-> l, processonly |-> po] :
                    l \in 1 .. OrderStrips, po \in BOOLEAN}
    /\ ledsPerStrip = OrderStripLeds
    /\ files = {}
    /\ \/ disk = [exists |-> FALSE,
                  text |-> [keys |-> FALSE, doc |-> [random |-> Undef, dev |-> FALSE]]]
       \/ disk \in {[exists |-> TRUE, text |-> Stringify(j)] : j \in OrderDocs}
    /\ lastSavedJson = disk.text
    /\ json = Parse(disk.text)
    /\ taskMemo = ZeroPer({})
    /\ pc = [p \in Positions |-> At("idle")]
    /\ ms \in {[pc |-> "collect", rng |-> s, order |-> << >>] : s \in 0 .. (RngStates - 1)}
    /\ now = 0
    /\ run = 1
    /\ hist = [seen |-> {}]

OrderRest == <<opts, ledsPerStrip, files, taskMemo, pc, now>>

\* collectLeds(io, json), called once in a run
OrderCollect ==
    /\ ms.pc = "collect"
    /\ LET r == collectLeds(opts, json, ms.rng)
       IN  /\ json' = [json EXCEPT !.random = r.random]
           /\ ms' = [pc |-> "visit", rng |-> r.rng, order |-> r.leds]
           /\ hist' = [seen |-> hist.seen \cup
                         {[start |-> json.random, cand |-> Candidates(opts, json),
                           shuffled |-> r.shuffled,
                           order |-> r.leds, end |-> r.random]}]
    /\ UNCHANGED <<disk, lastSavedJson, run>>
    /\ UNCHANGED OrderRest

\* a light of the live device is visited and the device recorded
\* (json.devices[serial] in handleOneLed)
OrderVisit ==
    /\ ms.pc = "visit"
    /\ Len(ms.order) > 0
    /\ ~json.dev
    /\ json' = [json EXCEPT !.dev = TRUE]
    /\ UNCHANGED <<disk, lastSavedJson, ms, run, hist>>
    /\ UNCHANGED OrderRest

\* jsonSaveFn and its write
OrderCheckpoint ==
    /\ ms.pc = "visit"
    /\ SaveNeeded(json, lastSavedJson)
    /\ lastSavedJson' = Stringify(json)
    /\ disk' = [exists |-> TRUE, text |-> Stringify(json)]
    /\ UNCHANGED <<json, ms, run, hist>>
    /\ UNCHANGED OrderRest

\* the run is over; the program is started again with the same options:
\* randy.instance() seeds itself, photos.json is loaded
OrderRerun(seed) ==
    /\ ms.pc = "visit"
    /\ run < MaxRuns
    /\ run' = run + 1
    /\ json' = Parse(disk.text)
    /\ lastSavedJson' = disk.text
    /\ ms' = [pc |-> "collect", rng |-> seed, order |-> << >>]
    /\ UNCHANGED <<disk, hist>>
    /\ UNCHANGED OrderRest

OrderNext ==
    \/ OrderCollect
    \/ OrderVisit
    \/ OrderCheckpoint
    \/ \E seed \in 0 .. (RngStates - 1) : OrderRerun(seed)

SpecOrder == OrderInit /\ [][OrderNext]_vars

\* C23: two runs of one configuration that start from the same persisted
\* state of the generator and the same candidate list return the same
\* visiting order, and a run that finds a persisted state leaves it as it is.
SameStateSameOrder ==
    \A a \in hist.seen : \A b \in hist.seen :
        (a.start # Undef /\ a.start = b.start /\ a.cand = b.cand)
            => (a.order = b.order /\ a.end = a.start)

\* the second run started from the state the first one persisted, with a
\* generator seeded otherwise, and has shuffled the lights of two strips
SecondRunFromPersistedState ==
    /\ run = 2
    /\ ms.pc = "visit"
    /\ ~opts.processonly
    /\ Len(ms.order) = OrderStrips * ledsPerStrip
    /\ ms.order # SortFrom(ledsForDevice, 0)
    /\ ms.rng # json.random
    /\ \E a \in hist.seen : a.start = Undef /\ a.end = json.random
    /\ \E b \in hist.seen : b.start = json.random

(***************************************************************************)
(* The lighting server's connection (src/lib/fadecandy.js) alone: lights   *)
(* off and single light commands, each a rawPixels series of three         *)
(* messages per connected device, the devices in parallel (async.map).     *)
(* In this model pc[d] is where device d's series stands, ms the           *)
(* connection: sequence, pending (sequence numbers with a handler),        *)
(* timers (armed timeouts), cb (sequence number -> the series step its     *)
(* callback continues), wire (messages the server has not answered),       *)
(* pixels (what each device shows), left and called (async.map's count     *)
(* and whether its callback was called).  The positions of a strip stand   *)
(* for the emitters of a device.  hist.calls[s] lists the calls of         *)
(* message s's callback, hist.completions those of the command's.          *)
(***************************************************************************)
WireDevices == 2        \* devices the lighting server may have connected
WireLeds == 2           \* emitters of a device in the model of the connection
MaxCmds == 2            \* lighting commands in the model of the connection

Stages == <<"device_options", "device_color_correction", "device_pixels">>

\* new Uint8Array(LEDS_PER_DEVICE * 3): every emitter off
AllOff == {}
\* singleLight: 255 for the emitter index of the device with device.serial
SinglePixelsOnEveryDevice(device, thisDevice, index) == {index}
SinglePixels(device, thisDevice, index) ==
    IF device = thisDevice THEN {index} ELSE AllOff

\* clearTimeout(timer) in the handler of the response
TimerLeftArmed(timers, s) == timers
ClearTimeout(timers, s) == timers \ {s}

\* connection.message(obj, callback): the message of stage k for device d
message(m, d, k, rgb) ==
    [m EXCEPT !.sequence = @ + 1,
              !.timers = @ \cup {m.sequence},
              !.pending = @ \cup {m.sequence},
              !.cb = (m.sequence :> [device |-> d, stage |-> k, pixels |-> rgb]) @@ @,
              !.wire = @ \cup {[sequence |-> m.sequence, device |-> d,
                                stage |-> Stages[k], pixels |-> rgb]}]

\* a context of the connection: m (ms), h (hist), p (pc)
\* async.map's iterator callback for device d
MapCallback(c, d, err) ==
    IF err
    THEN [c EXCEPT !.p[d] = [at |-> "failed"],
                   !.m.called = TRUE,
                   !.h.completions = IF c.m.called THEN @ ELSE Append(@, "err")]
    ELSE [c EXCEPT !.p[d] = [at |-> "done"],
                   !.m.left = @ - 1,
                   !.h.completions = IF ~c.m.called /\ c.m.left = 1
                                     THEN Append(@, "ok") ELSE @,
                   !.m.called = @ \/ c.m.left = 1]

\* the callback of message s: async.series goes on to the next message of
\* rawPixels, or ends with err or after the last one
SeriesCallback(c, s, err) ==
    LET f == c.m.cb[s]
    IN  IF c.p[f.device].at # Stages[f.stage] THEN c
        ELSE IF err THEN MapCallback(c, f.device, TRUE)
        ELSE IF f.stage < Len(Stages)
             THEN [c EXCEPT !.m = message(c.m, f.device, f.stage + 1, f.pixels),
                            !.p[f.device] = [at |-> Stages[f.stage + 1]]]
        ELSE MapCallback(c, f.device, FALSE)

\* rawPixels for every connected device, in the order of connection.devices
RECURSIVE rawPixelsFrom(_, _, _)
rawPixelsFrom(m, d, rgb) ==
    IF d \notin m.devices THEN m
    ELSE rawPixelsFrom(message(m, d, 1, rgb[d]), d + 1, rgb)

WireInit ==
    /\ opts = [maxgap |-> 0]
    /\ ledsPerStrip = WireLeds
    /\ json = [random |-> Undef, dev |-> FALSE]
    /\ files = {}
    /\ disk = [exists |-> FALSE, text |-> Stringify(json)]
    /\ lastSavedJson = disk.text
    /\ taskMemo = ZeroPer({})
    /\ \E n \in 1 .. WireDevices :
          /\ ms \in {[pc |-> "wire", devices |-> 0 .. (n - 1), sequence |-> 2,
                      pending |-> {}, timers |-> {}, cb |-> << >>, wire |-> {},
                      pixels |-> px, left |-> 0, called |-> FALSE,
                      cmd |-> [kind |-> "none"]] :
                        px \in [0 .. (n - 1) -> SUBSET Positions]}
          /\ pc = [d \in 0 .. (n - 1) |-> [at |-> "idle"]]
    /\ now = 0
    /\ run = 1
    /\ hist = [calls |-> << >>, completions |-> << >>,
               acks |-> [d \in ms.devices |-> << >>], timeouts |-> 0, cmds |-> 0]

WireRest == <<opts, ledsPerStrip, json, files, disk, lastSavedJson, taskMemo, now, run>>

\* the program sends a command when the one before has succeeded
MaySend ==
    /\ ms.pc = "wire"
    /\ hist.cmds < MaxCmds
    /\ \A d \in ms.devices : pc[d].at \in {"idle", "done"}

Sent(cmd, rgb) ==
    /\ ms' = [rawPixelsFrom(ms, 0, rgb) EXCEPT
                 !.cmd = cmd, !.left = Cardinality(ms.devices), !.called = FALSE]
    /\ pc' = [d \in ms.devices |-> [at |-> Stages[1]]]
    /\ hist' = [hist EXCEPT
                 !.calls = [s \in ms.sequence .. (ms'.sequence - 1) |-> << >>] @@ @,
                 !.completions = << >>,
                 !.acks = [d \in ms.devices |-> << >>],
                 !.timeouts = 0,
                 !.cmds = @ + 1]
    /\ UNCHANGED WireRest

\* connection.lightsOff(callback)
lightsOff ==
    /\ MaySend
    /\ Sent([kind |-> "off"], [d \in ms.devices |-> AllOff])

\* connection.singleLight(device, index, callback)
singleLight(device, index) ==
    /\ MaySend
    /\ device \in ms.devices /\ index \in Positions
    /\ Sent([kind |-> "single", device |-> device, index |-> index],
            [d \in ms.devices |-> SinglePixels(device, d, index)])

CommitWire(c) ==
    /\ ms' = c.m
    /\ pc' = c.p
    /\ hist' = [c.h EXCEPT
                  !.calls = [s \in (DOMAIN c.m.cb) \ (DOMAIN c.h.calls) |-> << >>] @@ @]
    /\ UNCHANGED WireRest

\* the server acts on message s and answers; socket.on('message') finds the
\* handler of the answer's sequence number
Respond(s) ==
    /\ ms.pc = "wire"
    /\ \E req \in ms.wire :
          /\ req.sequence = s
          /\ s \in ms.pending
          /\ LET shown == IF req.stage = "device_pixels"
                          THEN [ms.pixels EXCEPT ![req.device] = req.pixels]
                          ELSE ms.pixels
                 c == [m |-> [ms EXCEPT !.wire = @ \ {req}, !.pixels = shown],
                       h |-> [hist EXCEPT
                                !.calls[s] = Append(@, [err |-> FALSE, sequence |-> req.sequence]),
                                !.acks[req.device] = Append(@, req.stage)],
                       p |-> pc]
                 after == SeriesCallback(c, s, FALSE)
             IN  CommitWire([after EXCEPT !.m.pending = @ \ {s},
                                          !.m.timers = ClearTimeout(@, s)])

\* the answer to a message whose timer has fired: connection.pending has no
\* handler for its sequence number, calling undefined throws a TypeError
\* that nothing catches
LateRespond(s) ==
    /\ ms.pc = "wire"
    /\ \E req \in ms.wire :
          /\ req.sequence = s
          /\ s \notin ms.pending
          /\ ms' = [ms EXCEPT !.pc = "crashed", !.wire = {}, !.pending = {},
                              !.timers = {}]
    /\ UNCHANGED <<pc, hist>>
    /\ UNCHANGED WireRest

\* timedOut: the timer of message s fires
TimedOut(s) ==
    /\ ms.pc = "wire"
    /\ s \in ms.timers
    /\ LET c == [m |-> ms,
                 h |-> [hist EXCEPT
                          !.calls[s] = Append(@, [err |-> TRUE, sequence |-> Undef]),
                          !.timeouts = @ + 1],
                 p |-> pc]
           after == SeriesCallback(c, s, TRUE)
       IN  CommitWire([after EXCEPT !.m.pending = @ \ {s}, !.m.timers = @ \ {s}])

MaxSequence == 1 + MaxCmds * WireDevices * Len(Stages)

WireNext ==
    \/ lightsOff
    \/ \E device \in 0 .. (WireDevices - 1) : \E index \in 0 .. (WireLeds - 1) :
          singleLight(device, index)
    \/ \E s \in 2 .. MaxSequence : Respond(s)
    \/ \E s \in 2 .. MaxSequence : LateRespond(s)
    \/ \E s \in 2 .. MaxSequence : TimedOut(s)

SpecWire == WireInit /\ [][WireNext]_vars

(***************************************************************************)
(* Properties of the connection (SpecWire).                                *)
(***************************************************************************)
\* C24: the callback of a message is never called twice; while the process
\* runs, a message whose callback has not been called has its timer armed
\* and its handler registered, so that the answer or the timeout will call
\* it; once called, neither is left, and a call without error was made for
\* the answer that carries the message's own sequence number.
MessageCalledBackOnce ==
    \A s \in DOMAIN hist.calls :
        /\ Len(hist.calls[s]) <= 1
        /\ (ms.pc = "wire" /\ Len(hist.calls[s]) = 0)
              => (s \in ms.timers /\ s \in ms.pending)
        /\ Len(hist.calls[s]) = 1 =>
              /\ s \notin ms.timers /\ s \notin ms.pending
              /\ ~hist.calls[s][1].err => hist.calls[s][1].sequence = s
              /\ hist.calls[s][1].err => hist.calls[s][1].sequence = Undef

\* one message of a command was answered in time, another of the same
\* command has timed out and its answer is still to come
AnsweredAndTimedOut ==
    /\ ms.pc = "wire"
    /\ \E s \in DOMAIN hist.calls : \E t \in DOMAIN hist.calls :
          /\ hist.calls[s] = <<[err |-> FALSE, sequence |-> s]>>
          /\ hist.calls[t] = <<[err |-> TRUE, sequence |-> Undef]>>
          /\ \E req \in ms.wire : req.sequence = t

\* C25: the callback of lightsOff or singleLight is called at most once, and
\* is still to be called only while some device's series is in progress;
\* it is called without error only when every connected device has
\* acknowledged device_options, device_color_correction and device_pixels in
\* this order, and then the devices show exactly the target emitter
\* (singleLight) or nothing (lightsOff); when a message of the command has
\* timed out it has been called with the error.
CommandCompletesOnce ==
    /\ Len(hist.completions) <= 1
    /\ (ms.pc = "wire" /\ ms.cmd.kind # "none" /\ hist.completions = << >>)
          => \E d \in ms.devices : pc[d].at \notin {"done", "failed", "idle"}
    /\ hist.completions = <<"ok">> =>
          /\ \A d \in ms.devices : hist.acks[d] = Stages
          /\ ms.cmd.kind = "single" =>
                \A d \in ms.devices : \A i \in Positions :
                    i \in ms.pixels[d] <=> (d = ms.cmd.device /\ i = ms.cmd.index)
          /\ ms.cmd.kind = "off" => \A d \in ms.devices : ms.pixels[d] = {}
    /\ hist.timeouts >= 1 => hist.completions = <<"err">>

\* singleLight has succeeded with two devices connected, after a lightsOff
SingleLightSucceeded ==
    /\ hist.cmds = 2
    /\ ms.cmd.kind = "single"
    /\ Cardinality(ms.devices) = 2
    /\ hist.completions = <<"ok">>

(***************************************************************************)
(* Process-only mode (--processonly): ioSetup makes neither io.fc nor      *)
(* io.camera, collectLeds takes the lights of the devices recorded in      *)
(* photos.json, ioClose has nothing to close.                              *)
(***************************************************************************)
\* the data directory an interrupted run leaves after the raw photos of
\* both lights have been written and before a thumbnail is
RawStore ==
    LET led == [EmptyLed EXCEPT !.exists = TRUE, !.darkFrame = 0,
                                !.timestamp = 0, !.rawFile = TRUE]
        j == [EmptyDoc(ledsPerStrip) EXCEPT
                 !.dev = TRUE, !.random = TRUE,
                 !.leds = [i \in Positions |-> led],
                 !.darkFrames = <<[EmptyFrame EXCEPT !.timestamp = 0,
                                                     !.rawFile = TRUE]>>]
    IN  [disk |-> [exists |-> TRUE, text |-> Stringify(j)],
         files |-> {RawFileOf(DarkName(0))} \cup {RawFileOf(LedName(i)) : i \in Positions}]

\* handleOneLed for a light without raw photo: photographCommon calls prepFn,
\* which reaches io.fc.lightsOff (no dark frame on disk) or io.fc.singleLight
\* with io.fc undefined; the TypeError is thrown out of the iterator and
\* nothing catches it
VisitNoDevice ==
    /\ opts.processonly
    /\ MapSeriesReady(ms) /\ ms.next < ledsPerStrip
    /\ LET p == ms.next
           c == [Called(p) EXCEPT !.json.leds[p].exists = TRUE]
       IN  /\ ~BeyondLength(c.json, p)
           /\ ~RawPresent(c.json.leds[p], LedName(p), files)
           /\ json' = c.json
           /\ ms' = [c.ms EXCEPT !.pc = "fault", !.doc = EmptyText]
           /\ hist' = c.hist
    /\ pc' = [q \in Positions |-> At("exit")]
    /\ taskMemo' = ZeroPer({})
    /\ UNCHANGED <<files, now, lastSavedJson>>
    /\ UNCHANGED SeqRest

OfflineInit == InitWith(MainStripLeds, {PhotographedStore, RawStore}, TRUE)

OfflineNext ==
    \/ VisitSkip
    \/ VisitHaveRaw
    \/ VisitNoDevice
    \/ \E p \in Slots : ThumbDone(p)
    \/ \E p \in Slots : DarkThumbDone(p)
    \/ \E p \in Slots : \E result \in WorkerPeaks : PeakDone(p, result)
    \/ \E p \in Slots : PgmDone(p)
    \/ \E p \in Slots : LightDone(p)
    \/ \E p \in Slots : MomentsDone(p)
    \/ \E p \in Slots : SaveDone(p)
    \/ SeqSaveDone \/ FinalSaveDone \/ Finish

SpecOffline == OfflineInit /\ [][OfflineNext]_vars

\* C26 as stated: in process-only mode no lighting command is sent, nothing
\* is captured and every light of the visiting order is handled without a
\* fault
ProcessOnlyWithoutFault ==
    opts.processonly =>
        /\ hist.lightCmds = 0 /\ hist.closeCmds = 0
        /\ NoCaptures
        /\ ms.pc # "fault"

(***************************************************************************)
(* Checkpoints, lighting commands and the order of a chain's stages.       *)
(***************************************************************************)
\* C27: a step in which nextPhoto is called for a light (its capture step is
\* over) checkpoints the document as it then is, and mapSeries waits for the
\* write if there is one; the next light is visited only when that write has
\* completed and nextPhoto has been called for every light before it; a
\* step in which a light's reduction chain ends without error checkpoints
\* the document as it then is, with a write of its own unless nextPhoto's
\* checkpoint in the same step has just taken the text.
CheckpointAfterCaptureAndChain ==
    [][/\ \A p \in Positions :
            hist'.photoCb[p] > hist.photoCb[p] =>
                /\ lastSavedJson' = Stringify(json')
                /\ lastSavedJson' # lastSavedJson =>
                      (ms'.pc = "save" /\ ms'.doc = lastSavedJson')
       /\ ms'.next > ms.next =>
            /\ ms.pc = "call" /\ ms.doc = EmptyText
            /\ \A q \in Positions : q < ms.next => hist.photoCb[q] = 1
       /\ \A p \in Positions :
            (pc[p].at \notin {"saveW", "done", "failed"} /\ pc'[p].at \in {"saveW", "done"})
                => /\ lastSavedJson' = Stringify(json')
                   /\ pc'[p].at = "saveW" =>
                         /\ lastSavedJson' # lastSavedJson
                         /\ pc'[p].doc = lastSavedJson'
                   /\ (lastSavedJson' # lastSavedJson /\ hist'.photoCb = hist.photoCb)
                         => pc'[p].at = "saveW"]_vars

\* both lights were photographed in this run, the second after the
\* checkpoint that followed the first one's photo, and the first light's
\* chain has ended with its own checkpoint written
SecondPhotoAfterCheckpoint ==
    /\ hist.shots[0] = 1 /\ hist.shots[1] = 1
    /\ hist.photoCb[0] = 1
    /\ pc[0].at = "done"
    /\ hist.momentsCalls[0] = 1
    /\ disk.exists /\ Parse(disk.text).leds[0].lightmap = "moments"

\* C28: a step that triggers the capture of light p is the acknowledgement,
\* without error, of the singleLight sent for p; a step that triggers the
\* capture of a dark frame is the acknowledgement, without error, of the
\* lightsOff sent for it; and from the moment such a command is sent until
\* its capture has completed no lighting command is sent (ioClose's
\* lightsOff at the earliest in the step that completes the capture).
CaptureAfterItsLightingCommand ==
    [][/\ \A p \in Positions :
            hist'.shots[p] > hist.shots[p] =>
                /\ pc[p].at = "single" /\ pc'[p].at = "shot"
                /\ hist'.deviceErrs = hist.deviceErrs
       /\ hist'.darkShots > hist.darkShots =>
            /\ \E p \in Positions : pc[p].at = "darkOff" /\ pc'[p].at = "darkShot"
            /\ hist'.deviceErrs = hist.deviceErrs
       /\ (\E p \in Positions : pc[p].at \in {"single", "darkOff", "shot", "darkShot"}) =>
            /\ hist'.lightCmds = hist.lightCmds
            /\ hist'.closeCmds # hist.closeCmds =>
                  \E p \in Positions : pc[p].at = "shot" /\ pc'[p].at # "shot"]_vars

\* the second light's photo has been taken after its own singleLight, which
\* followed a dark frame taken after lightsOff in this run
PhotoTakenAfterSingleLight ==
    /\ hist.darkShots = 1
    /\ hist.shots[1] = 1
    /\ pc[1].at = "rawWrite"
    /\ json.leds[1].timestamp # Undef
    /\ hist.deviceErrs = 0

(***************************************************************************)
(* Progress of the capture path.  The lighting server, the camera and the  *)
(* writes of raw dark frames and of nextPhoto's checkpoints always         *)
(* eventually call back, and mapSeries calls its iterator; nothing is      *)
(* assumed of the worker farms, of a light's raw write or of the           *)
(* checkpoints of the chains.                                              *)
(***************************************************************************)
CaptureStep ==
    \/ VisitSkip
    \/ VisitHaveRaw
    \/ \E t \in Times : VisitShoot(t)
    \/ \E p \in Slots : DarkOffDone(p)
    \/ \E p \in Slots : DarkShotDone(p)
    \/ \E p \in Slots : DarkWriteDone(p)
    \/ \E p \in Slots : SingleDone(p)
    \/ \E p \in Slots : ShotDone(p)
    \/ SeqSaveDone

SpecCapture == Init /\ [][Next]_vars /\ WF_vars(CaptureStep)

\* C29: whatever the worker tasks do, and if none of them ever completes,
\* eventually photoCallback (nextPhoto) has been called for every light of
\* the visiting order.
CapturesComplete ==
    <>(\A p \in Positions : hist.photoCb[p] = 1)

\* both lights have been photographed and nextPhoto called for them while
\* no worker task has completed: the first light still waits for its
\* thumbnail, the second for its raw write
CapturedWhileNothingReduced ==
    /\ \A p \in Positions : hist.photoCb[p] = 1 /\ hist.shots[p] = 1
    /\ pc[0].at = "thumbW"
    /\ pc[1].at = "rawWrite"
    /\ \A p \in Positions : hist.peakCalls[p] = 0

\* a worker task of the named stage is started for light p in this step
Starts(stage, p) == hist'[stage][p] > hist[stage][p]

\* C30: in a light's chain the thumbnailer starts when the raw photo is
\* recorded and on disk and no later stage has started; calculatePeakDiff
\* starts when the light's thumbnail and its dark frame's thumbnail are on
\* disk and neither lightmap nor moments stage has started;
\* calculateLightImage starts when peakDiff is recorded (the strip-length
\* update follows it in the same callback) and the dark frame's PGM is
\* recorded and on disk, before the moments stage; calculateMoments starts
\* when the lightmap is on disk; and a light has at most one stage in flight.
ChainStagesInOrder ==
    [][\A p \in Positions :
        LET jLed == json'.leds[p]
            rawThere == jLed.rawFile /\ RawFileOf(LedName(p)) \in files'
            thumbThere == jLed.thumbFile /\ ThumbFileOf(LedName(p)) \in files'
            started == Cardinality({stage \in {"thumbCalls", "peakCalls",
                                               "lightCalls", "momentsCalls"} :
                                        Starts(stage, p)})
        IN  /\ started <= 1
            /\ started = 1 => pc[p].at \notin {"thumbW", "darkThumbW", "peakW",
                                               "pgmW", "lightW", "momentsW"}
                                \/ pc'[p].at # pc[p].at
            /\ Starts("thumbCalls", p) =>
                  /\ rawThere /\ pc'[p].at = "thumbW"
                  /\ hist.peakCalls[p] = 0 /\ hist.lightCalls[p] = 0
                  /\ hist.momentsCalls[p] = 0
            /\ Starts("peakCalls", p) =>
                  /\ rawThere /\ thumbThere /\ pc'[p].at = "peakW"
                  /\ json'.darkFrames[jLed.darkFrame + 1].thumbFile
                  /\ ThumbFileOf(DarkName(jLed.darkFrame)) \in files'
                  /\ hist.lightCalls[p] = 0 /\ hist.momentsCalls[p] = 0
            /\ Starts("lightCalls", p) =>
                  /\ rawThere /\ thumbThere /\ pc'[p].at = "lightW"
                  /\ PeakDiffKnown(jLed) /\ Visible(jLed.peakDiff)
                  /\ json'.darkFrames[jLed.darkFrame + 1].pgmFile
                  /\ PgmFileOf(DarkName(jLed.darkFrame)) \in files'
                  /\ hist.momentsCalls[p] = 0
            /\ Starts("momentsCalls", p) =>
                  /\ rawThere /\ pc'[p].at = "momentsW"
                  /\ PeakDiffKnown(jLed)
                  /\ jLed.lightmap = "file"
                  /\ LightFileOf(LedName(p)) \in files']_vars

\* a light photographed in this run has gone through thumbnail, peak
\* difference, lightmap and moments, one call of each
AllStagesRan ==
    \E p \in Positions :
        /\ hist.shots[p] = 1
        /\ hist.thumbCalls[p] = 1 /\ hist.peakCalls[p] = 1
        /\ hist.lightCalls[p] = 1 /\ hist.momentsCalls[p] = 1
        /\ pc[p].at = "done"
        /\ json.leds[p].lightmap = "moments"

(***************************************************************************)
(* Lights below the noise threshold.                                       *)
(***************************************************************************)
\* light p's chain passes generateLightmap in this step
PassesLightmapStage(p) ==
    /\ pc[p].at \in {"idle", "rawWrite", "thumbW", "peakW"}
    /\ ~(pc[p].at = "idle" /\ BeyondLength(json, p))
    /\ pc'[p].at \in {"pgmW", "pgmWait", "lightW", "momentsW", "saveW", "done"}

\* C31: when a light's chain reaches generateLightmap with a peakDiff below
\* the noise threshold, the light has no lightmap afterwards (a recorded one
\* is removed), neither extractDarkPGM nor calculateLightImage nor
\* calculateMoments is issued or joined for it, and the chain goes on to its
\* checkpoint in the same step; a light whose chain has completed has a
\* lightmap only if its peakDiff is at least the noise threshold.
DimLightEndsChain ==
    [][\A p \in Positions :
          /\ (PassesLightmapStage(p) /\ ~Visible(json'.leds[p].peakDiff))
                => /\ PeakDiffKnown(json'.leds[p])
                   /\ json'.leds[p].lightmap = "none"
                   /\ pc'[p].at \in {"saveW", "done"}
                   /\ hist'.finalCb[p] = hist.finalCb[p] + 1
                   /\ hist'.lightCalls[p] = hist.lightCalls[p]
                   /\ hist'.momentsCalls[p] = hist.momentsCalls[p]
                   /\ hist'.pgmCb[p] = hist.pgmCb[p]
                   /\ hist'.pgmCalls = hist.pgmCalls
                   /\ hist'.pgmJoins = hist.pgmJoins
                   /\ taskMemo' = taskMemo
          /\ (pc'[p].at \in {"saveW", "done"} /\ json'.leds[p].lightmap # "none")
                => Visible(json'.leds[p].peakDiff)
          \* the stage applied to a record that holds a lightmap
          /\ (PeakDiffKnown(json.leds[p]) /\ ~Visible(json.leds[p].peakDiff))
                => \A lm \in {"file", "moments"} :
                      LET c == FromLightmap([Ctx EXCEPT !.json.leds[p].lightmap = lm],
                                            files \cup {LightFileOf(LedName(p))}, p)
                      IN  /\ c.json.leds[p].lightmap = "none"
                          /\ c.pcp.at \in {"saveW", "done"}
                          /\ c.memo = taskMemo
                          /\ c.hist.lightCalls = hist.lightCalls
                          /\ c.hist.momentsCalls = hist.momentsCalls]_vars

\* a run in which a dim light was measured and its chain ended without a
\* lightmap task, while a bright light got its lightmap and moments
DimLightChainCompleted ==
    \E p, q \in Positions :
        /\ pc[p].at = "done" /\ hist.peakCalls[p] = 1
        /\ ~Visible(json.leds[p].peakDiff)
        /\ json.leds[p].lightmap = "none"
        /\ hist.lightCalls[p] = 0 /\ hist.momentsCalls[p] = 0
        /\ pc[q].at = "done" /\ Visible(json.leds[q].peakDiff)
        /\ json.leds[q].lightmap = "moments"

(***************************************************************************)
(* photographCommon: what a new photo leaves of the record.                *)
(***************************************************************************)
\* C32: the step in which takePicture returns a new photo of a light leaves
\* the light's record without thumbFile and lightmap, calls photoCallback and
\* checkpoints the document as it then is, with rawFile as it was before the
\* photo; for a dark frame it leaves the frame without thumbFile.  A rawFile
\* reference is recorded only in the step in which the raw write of that
\* photo completes without error, when the file is on disk.
NewPhotoDropsDerivedData ==
    [][run' = run =>
         /\ \A p \in Positions :
               /\ (pc[p].at = "shot" /\ pc'[p].at = "rawWrite")
                     => /\ ~json'.leds[p].thumbFile
                        /\ json'.leds[p].lightmap = "none"
                        /\ json'.leds[p].rawFile = json.leds[p].rawFile
                        /\ hist'.photoCb[p] = hist.photoCb[p] + 1
                        /\ lastSavedJson' = Stringify(json')
                        /\ ms'.pc = "save" => ms'.doc = Stringify(json')
               /\ (pc[p].at = "darkShot" /\ pc'[p].at = "darkWrite")
                     => /\ ~Frame(json', pc[p].dark).thumbFile
                        /\ Frame(json', pc[p].dark).rawFile
                              = Frame(json, pc[p].dark).rawFile
               /\ json'.leds[p].rawFile # json.leds[p].rawFile
                     => /\ json'.leds[p].rawFile
                        /\ pc[p].at = "rawWrite"
                        /\ hist.photoCb[p] = 1
                        /\ RawFileOf(LedName(p)) \in files'
         /\ \A index \in 0 .. (Len(json.darkFrames) - 1) :
               Frame(json', index).rawFile # Frame(json, index).rawFile
                  => /\ Frame(json', index).rawFile
                     /\ \E p \in Positions : pc[p].at = "darkWrite" /\ pc[p].dark = index
                     /\ RawFileOf(DarkName(index)) \in files'
         /\ Len(json'.darkFrames) > Len(json.darkFrames)
               => ~json'.darkFrames[Len(json'.darkFrames)].rawFile]_vars

\* a light that had a thumbnail and a lightmap has been photographed again
\* (its raw photo was removed): photoCallback has been called, the raw write
\* is in flight, and the checkpoint taken has neither field
PhotographedAgainWithoutDerivedData ==
    \E p \in Positions :
        /\ hist.gone = {RawFileOf(LedName(p))}
        /\ hist.start.json.leds[p].thumbFile
        /\ hist.start.json.leds[p].lightmap = "moments"
        /\ pc[p].at = "rawWrite" /\ hist.photoCb[p] = 1
        /\ ~json.leds[p].thumbFile /\ json.leds[p].lightmap = "none"
        /\ RawFileOf(LedName(p)) \notin files
        /\ ~Parse(lastSavedJson).leds[p].thumbFile
        /\ Parse(lastSavedJson).leds[p].lightmap = "none"

(***************************************************************************)
(* The visiting order collectLeds returns.                                 *)
(***************************************************************************)
\* where light led stands in a list without duplicates
PlaceIn(leds, led) == CHOOSE k \in 1 .. Len(leds) : leds[k] = led

CheckpointMatchesLastSaved ==
    /\ ~WriteInFlight
          => (IF disk.exists THEN disk.text ELSE EmptyText) = lastSavedJson
    /\ ms.pc = "done" => (disk.exists /\ disk.text = Stringify(json))

(***************************************************************************)
(* A failed PGM extraction and the lights queued on it.                    *)
(***************************************************************************)
\* C35: the task ledger is empty whenever no extractDarkPGM task is running,
\* and every light queued on a frame's extraction waits for a task that is
\* still running: when the task fails the lights queued on it are called
\* back and the frame's entry is removed.
PgmFailureNotifiesWaiters ==
    /\ (\A p \in Positions : pc[p].at # "pgmW") => DOMAIN taskMemo = {}
    /\ \A q \in Positions :
          pc[q].at = "pgmWait"
             => \E p \in Positions : /\ pc[p].at = "pgmW"
                                     /\ json.leds[p].darkFrame = json.leds[q].darkFrame

(***************************************************************************)
(* A light photographed again.                                             *)
(***************************************************************************)
\* C36: when a light whose recorded raw photo was missing has been
\* photographed again and its chain has completed, every derived field it
\* holds was computed in this run, after the new photo: its thumbnail by the
\* thumbnailer, its peakDiff by calculatePeakDiff, its lightmap by
\* calculateLightImage and its moments by calculateMoments.
PhotographedAgainAllRecomputed ==
    \A p \in Positions :
        (/\ hist.start.json.leds[p].rawFile
         /\ hist.shots[p] >= 1
         /\ pc[p].at = "done")
           => /\ json.leds[p].thumbFile => hist.thumbCalls[p] >= 1
              /\ json.leds[p].peakDiff # Undef => hist.peakCalls[p] >= 1
              /\ json.leds[p].lightmap # "none" => hist.lightCalls[p] >= 1
              /\ json.leds[p].lightmap = "moments" => hist.momentsCalls[p] >= 1

(***************************************************************************)
(* Lights beyond the strip's length.                                       *)
(***************************************************************************)
\* C37: when the run has completed, no light at a position at or beyond the
\* strip's length holds a lightmap.
NoLightmapBeyondLength ==
    ms.pc = "done"
       => \A p \in Positions : BeyondLength(json, p) => json.leds[p].lightmap = "none"

(***************************************************************************)
(* What holds of a strip when its length is set.                           *)
(***************************************************************************)
\* C38: in the step that sets a strip's length to L, L lies between 0 and the
\* strip's capacity; if L is below the capacity, the positions from L to
\* L + maxgap, where the scan stopped, all have a peakDiff below the noise
\* threshold, every position below L has a peakDiff, and if L > 0 the light
\* at L - 1 has a peakDiff of at least the threshold; if L is the capacity
\* every position has a peakDiff.
LengthSetOverMeasuredGap ==
    [][(json.length = Undef /\ json'.length # Undef)
          => LET L == json'.length
                 leds == json'.leds
             IN  /\ L \in 0 .. ledsPerStrip
                 /\ \A i \in 0 .. (L - 1) : HasPeak(leds, i)
                 /\ L < ledsPerStrip
                       => /\ L + opts.maxgap < ledsPerStrip
                          /\ \A i \in L .. (L + opts.maxgap) : Missing(leds, i)
                          /\ L > 0 => Visible(leds[L - 1].peakDiff)]_vars

\* a length between 0 and the capacity has been set behind a visible light,
\* the scan having stopped short of the strip's last position
LengthSetBehindVisibleLight ==
    /\ hist.calls = 1
    /\ json.length # Undef /\ json.length > 0
    /\ json.length + opts.maxgap + 1 < ledsPerStrip
    /\ Visible(json.leds[json.length - 1].peakDiff)
    /\ \E i \in 0 .. (json.length - 1) : Missing(json.leds, i)
    /\ ~HasPeak(json.leds, ledsPerStrip - 1)

(***************************************************************************)
(* A light's dark frame reference.                                         *)
(***************************************************************************)
\* the light's darkFrame names a recorded frame whose raw photo is recorded
\* and on disk
DarkFrameWritten(j, f, p) ==
    j.leds[p].darkFrame # Undef
       => /\ j.leds[p].darkFrame \in 0 .. (Len(j.darkFrames) - 1)
          /\ Frame(j, j.leds[p].darkFrame).rawFile
          /\ RawFileOf(DarkName(j.leds[p].darkFrame)) \in f

\* C39: in every state of a run a light's darkFrame, when set, is the index
\* of a recorded dark frame whose raw photo is recorded and on disk; the
\* reference is set only in a step after which that holds and the light's
\* own lighting command has just been sent, its photo not yet taken in
\* this run.
DarkFrameSetAfterItsRawWrite ==
    [][\A p \in Positions :
          /\ DarkFrameWritten(json, files, p)
          /\ DarkFrameWritten(json', files', p)
          /\ json'.leds[p].darkFrame # json.leds[p].darkFrame
                => /\ pc'[p].at = "single"
                   /\ hist'.shots[p] = 0
                   /\ hist'.lightCmds = hist.lightCmds + 1]_vars

\* a dark frame was photographed in this run, its raw photo written, and the
\* light that refers to it photographed afterwards
LightPhotographedAfterItsDarkFrame ==
    \E p \in Positions :
        /\ hist.darkShots = 1
        /\ hist.start.json.leds[p].darkFrame = Undef
        /\ json.leds[p].darkFrame # Undef
        /\ RawFileOf(DarkName(json.leds[p].darkFrame)) \in files \ hist.start.files
        /\ hist.shots[p] = 1
        /\ pc[p].at = "rawWrite"

(***************************************************************************)
(* An answer that finds no pending handler.                                *)
(***************************************************************************)
\* C40: an answer of the lighting server to a message that has already
\* timed out, or with a sequence number that has no pending handler, is
\* ignored: the process does not fault, and connection.pending holds exactly
\* the messages that have been neither answered nor timed out.
LateResponseIgnored ==
    /\ ms.pc # "crashed"
    /\ ms.pending = {s \in DOMAIN hist.calls : hist.calls[s] = << >> /\ s < ms.sequence}

====
